---- MODULE Spec2Model ----
(***************************************************************************)
(* Student dropout predictor: the risk classifier (model_trainer.py), its  *)
(* attribution engine (explainability.py) and the REST service that owns   *)
(* one predictor and one explainer (api.py).                               *)
(*                                                                         *)
(* Units.  Probabilities are integers in hundredths (0..100 for 0.00 ..    *)
(* 1.00).  The fee payment lexicon and its threshold are in tenths (paid   *)
(* 1 -> 10, partial 0.5 -> 5, unpaid 0 -> 0, threshold 0.5 -> 5).  All     *)
(* other feature values are the integers of the source.                    *)
(***************************************************************************)
EXTENDS Integers, Sequences, FiniteSets, TLC

VARIABLES
    \* ---- pure-function harness (DropoutPredictor._create_synthetic_target,
    \*      the tier loop of DropoutPredictor.predict)
    ppc,            \* "input" before the function is applied, "done" after
    raw_fee,        \* the raw fee_payment_status cell of the record, or NoColumn
    record,         \* the cleaned record: column -> number, null cells left out
    synth_weight,   \* the pre-threshold `target` of _create_synthetic_target
    synth_label,    \* the value _create_synthetic_target returns for the record
    prob,           \* one probability handed to the tier loop
    risk_label,     \* the tier the loop appended for it
    \* ---- missing cells at prediction time (DropoutPredictor.predict line 221)
    train_column,   \* one feature column of the training matrix
    batch,          \* the same column of the inference batch, NaN for a null cell
    X_processed,    \* that column of X_processed, the frame the ensemble scores
    \* ---- InterventionRecommender.analyze_student_risk_factors
    student_data,   \* the student's fields: name -> value, absent keys left out
    feature_impacts,\* dict(zip(feature_names, shap_values)), in hundredths
    recommendations,\* every triggered recommendation, in the order they were added
    returned,       \* the list the call returns
    \* ---- the splits of DropoutPredictor.train, lines 111-123, as class counts
    y_counts,       \* rows of y per class: [neg, pos]
    use_smote,      \* the use_smote argument
    split,          \* [train, val, test] as train_test_split returned them
    resampled,      \* [train, val, test] after the SMOTE step
    \* ---- the tier of one probability, by predict and by explain_local
    configured,     \* RISK_THRESHOLDS as config.py of the running process sets it
    probability,    \* the probability the ensemble gave the record
    predict_tier,   \* risk_labels entry of predict
    explain_tier,   \* risk_level of explain_local
    \* ---- DataProcessor.validate_and_preprocess on one column of the upload
    column,         \* the column's cells after type cleaning, NaN for null
    col_numeric,    \* TRUE for dtype int64/float64, FALSE for object
    df_processed,   \* the column in the returned frame
    processing_info,\* the returned report
    \* ---- InterventionRecommender's logs
    custom_interventions, \* self.custom_interventions: student_id -> list of dicts,
                    \* each entry the identity of the dict object it holds
    intervention_history, \* self.intervention_history: list of outcome records
    dicts,          \* the callers' intervention dicts: identity -> content
    now,            \* datetime.now()
    report,         \* what generate_intervention_report last returned
    \* ---- the top features of one explained record (explain_local lines 104-114)
    student_shap,   \* shap_values[i]: one attribution per feature column
    top_features,   \* top_features.to_dict('records')
    \* ---- DataProcessor._map_columns without an explicit mapping
    df_columns,     \* the uploaded table's column names, in table order
    column_mapping, \* self.column_mapping: table column -> expected column
    df_mapped,      \* the column names of the returned frame
    \* ---- DataProcessor._clean_data_types on one percentage column
    pct_col,        \* the column's name
    raw_cells,      \* its cells as uploaded (text)
    df_clean,       \* the column in the returned frame, in hundredths, NaN for null
    \* ---- DataProcessor._engineer_features on one record, alone and in a batch
    student_row,    \* the record: attendance, LMS logins, online hours
    other_rows,     \* the other records of the batch
    alone_score,    \* its engagement_score in a frame of its own, in tenths
    batch_score,    \* its engagement_score in the batch's frame, in tenths
    \* ---- the Streamlit session (app.py), which also holds a predictor, an
    \*      explainer and processed_data of its own
    predictions,    \* st.session_state.predictions: the cached output, if any
    \* ---- the predictor, its explainer and the artifacts on disk
    predictor,      \* the DropoutPredictor: model, feature_columns, model_version,
                    \* training_metrics, is_trained
    explainer,      \* the ModelExplainer held by the caller (api.py `explainer`)
    models_dir,     \* MODELS_DIR: version number -> persisted artifact
    processed_data, \* temp_processed_data.csv: 0 when absent, else a table index
    last,           \* the last call: operation, whether it raised, what it returned
    committed,      \* the predictor as the last successful train/load left it
    next_id         \* ensembles constructed so far (object identity)

synthVars == <<raw_fee, record, synth_weight, synth_label, prob, risk_label>>

fillVars == <<train_column, batch, X_processed>>

recVars == <<student_data, feature_impacts, recommendations, returned>>

splitVars == <<y_counts, use_smote, split, resampled>>

tierVars == <<configured, probability, predict_tier, explain_tier>>

missVars == <<column, col_numeric, df_processed, processing_info>>

logVars == <<custom_interventions, intervention_history, dicts, now, report>>

topVars == <<student_shap, top_features>>

mapVars == <<df_columns, column_mapping, df_mapped>>

cleanVars == <<pct_col, raw_cells, df_clean>>

engVars == <<student_row, other_rows, alone_score, batch_score>>

appVars == <<predictions>>

laterVars == <<logVars, topVars, mapVars, cleanVars, engVars, appVars>>

\* every later harness group but logVars
logOthers == <<topVars, mapVars, cleanVars, engVars, appVars>>

\* every later harness group but topVars
topOthers == <<logVars, mapVars, cleanVars, engVars, appVars>>

\* every later harness group but mapVars
mapOthers == <<logVars, topVars, cleanVars, engVars, appVars>>

\* every later harness group but cleanVars
cleanOthers == <<logVars, topVars, mapVars, engVars, appVars>>

\* every later harness group but engVars
engOthers == <<logVars, topVars, mapVars, cleanVars, appVars>>

\* every later harness group but appVars
appOthers == <<logVars, topVars, mapVars, cleanVars, engVars>>

firstVars == <<fillVars, recVars, splitVars, tierVars, missVars>>

harnessVars == <<firstVars, laterVars>>

pureVars == <<ppc, synthVars, harnessVars>>

sysVars ==
    <<predictor, explainer, models_dir, processed_data, last, committed, next_id>>

vars == <<pureVars, sysVars>>

None == "None"
NoColumn == "<no column>"

(***************************************************************************)
(* config.py                                                               *)
(***************************************************************************)
RISK_THRESHOLDS == [high |-> 65, medium |-> 35, low |-> 0]

\* FEE_PAYMENT_MAPPING in tenths; Series.map leaves an unmapped value null.
FeeKeys == {"paid", "partial", "unpaid", "1", "0", "2"}

FEE_PAYMENT_MAPPING ==
    [k \in FeeKeys |->
        CASE k = "paid"    -> 10
          [] k = "partial" -> 5
          [] k = "unpaid"  -> 0
          [] k = "1"       -> 10
          [] k = "0"       -> 0
          [] k = "2"       -> 5]

(***************************************************************************)
(* DropoutPredictor.predict, lines 228-235: probability -> tier            *)
(***************************************************************************)
RiskLabelStrict(p) ==
    IF p > RISK_THRESHOLDS.high THEN "High"
    ELSE IF p > RISK_THRESHOLDS.medium THEN "Medium"
    ELSE "Low"

RiskLabel(p) ==
    IF p >= RISK_THRESHOLDS.high THEN "High"
    ELSE IF p >= RISK_THRESHOLDS.medium THEN "Medium"
    ELSE "Low"

\* the same loop in a process whose config.py sets RISK_THRESHOLDS to th
RiskLabelUnder(th, p) ==
    IF p >= th.high THEN "High"
    ELSE IF p >= th.medium THEN "Medium"
    ELSE "Low"

RiskLabels(probabilities) ==
    [i \in 1..Len(probabilities) |-> RiskLabel(probabilities[i])]

(***************************************************************************)
(* DataProcessor._clean_data_types, lines 116-118: the fee lexicon.  The   *)
(* cell is lower-cased and stripped, then mapped; an unmapped cell becomes *)
(* null, which the record represents by leaving the column out of its      *)
(* domain.                                                                 *)
(***************************************************************************)
CleanFee(rec, raw) ==
    IF raw \in FeeKeys
    THEN [c \in DOMAIN rec \cup {"fee_payment_status"} |->
            IF c = "fee_payment_status" THEN FEE_PAYMENT_MAPPING[raw] ELSE rec[c]]
    ELSE rec

(***************************************************************************)
(* DropoutPredictor._create_synthetic_target, lines 68-92, for one row.    *)
(* A column that is absent adds nothing (the `in df.columns` tests); a     *)
(* null cell compares False and adds nothing either.                       *)
(***************************************************************************)
Below(rec, col, t) == col \in DOMAIN rec /\ rec[col] < t

BelowOrEqual(rec, col, t) == col \in DOMAIN rec /\ rec[col] <= t

Indicator(b) == IF b THEN 1 ELSE 0

FeeTermInclusive(rec) == Indicator(BelowOrEqual(rec, "fee_payment_status", 5)) * 1

FeeTerm(rec) == Indicator(Below(rec, "fee_payment_status", 5)) * 1

SyntheticWeightNoLogins(rec) ==
      Indicator(Below(rec, "attendance_percentage", 60)) * 2
    + Indicator(Below(rec, "assignment_timeliness", 50)) * 2
    + Indicator(Below(rec, "quiz_test_avg_pct", 50)) * 2
    + FeeTerm(rec)

SyntheticWeight(rec) ==
      Indicator(Below(rec, "attendance_percentage", 60)) * 2
    + Indicator(Below(rec, "assignment_timeliness", 50)) * 2
    + Indicator(Below(rec, "quiz_test_avg_pct", 50)) * 2
    + FeeTerm(rec)
    + Indicator(Below(rec, "lms_login_count_monthly", 5)) * 1

SyntheticLabel(rec) == Indicator(SyntheticWeight(rec) >= 3)

(***************************************************************************)
(* Tables.  A table is its ordered columns, each with its name and whether *)
(* pandas holds it with a numeric dtype, and its rows; a row is identified *)
(* by its kind, which is all a fitted ensemble looks at.                   *)
(***************************************************************************)
RowKinds == {"steady", "struggling"}

Col(n, isnum) == [name |-> n, numeric |-> isnum]

Tables ==
    << \* the processed upload: identifier, two features, a text column
       [columns |-> <<Col("student_id", TRUE), Col("attendance_percentage", TRUE),
                      Col("quiz_test_avg_pct", TRUE), Col("student_name", FALSE)>>,
        rows |-> <<"steady", "struggling">>],
       \* another upload: other features, and a recorded outcome column
       [columns |-> <<Col("student_id", TRUE), Col("attendance_percentage", TRUE),
                      Col("fee_payment_status", TRUE), Col("dropout", TRUE)>>,
        rows |-> <<"struggling">>],
       \* the first table's features in another order
       [columns |-> <<Col("quiz_test_avg_pct", TRUE), Col("attendance_percentage", TRUE),
                      Col("student_id", TRUE)>>,
        rows |-> <<"struggling", "steady">>] >>

TableIds == 1..Len(Tables)

RECURSIVE SelectSeq2(_, _)
\* the subsequence of s whose elements are in the set keep, order preserved
SelectSeq2(s, keep) ==
    IF s = <<>> THEN <<>>
    ELSE IF Head(s) \in keep THEN <<Head(s)>> \o SelectSeq2(Tail(s), keep)
    ELSE SelectSeq2(Tail(s), keep)

ColumnNames(df) == [i \in 1..Len(df.columns) |-> df.columns[i].name]

NumericNames(df) ==
    {df.columns[i].name : i \in {j \in 1..Len(df.columns) : df.columns[j].numeric}}

Range(s) == {s[i] : i \in 1..Len(s)}

(***************************************************************************)
(* The ensemble (xgb.XGBClassifier).  id is the object's identity, cols    *)
(* the column list of the matrix it was fitted on, proba what it learned:  *)
(* the probability it gives each kind of row.  id 0 is Python's None.      *)
(***************************************************************************)
\* fit is seeded (random_state 42): what it learns is fixed by the matrix.
Learned(X) ==
    IF Len(X.rows) > 1
    THEN [k \in RowKinds |-> IF k = "steady" THEN 10 ELSE 70]
    ELSE [k \in RowKinds |-> IF k = "steady" THEN 35 ELSE 64]

NoProba == [k \in RowKinds |-> 0]

NoModel == [id |-> 0, cols |-> <<>>, fitted |-> FALSE, proba |-> NoProba]

NewClassifier(id) == [id |-> id, cols |-> <<>>, fitted |-> FALSE, proba |-> NoProba]

Fit(ens, X) == [ens EXCEPT !.cols = X.cols, !.fitted = TRUE, !.proba = Learned(X)]

\* DropoutPredictor.__init__, lines 29-36.  model_version 0 is None,
\* training_metrics 0 is {} and otherwise names the ensemble measured.
NewPredictor ==
    [model |-> NoModel, feature_columns |-> <<>>, model_version |-> 0,
     training_metrics |-> 0, is_trained |-> FALSE]

\* The raw output (margin, log-odds) of a binary:logistic ensemble for a row
\* it gives probability p, in hundredths: 100 * ln(p / (1 - p)) for the
\* probabilities the ensembles of this model give, rounded to a whole number.
Margin(p) ==
    CASE p = 10 -> -220
      [] p = 35 -> -62
      [] p = 50 -> 0
      [] p = 64 -> 58
      [] p = 70 -> 85
      [] OTHER  -> 4 * (p - 50)

\* TreeExplainer.expected_value: the ensemble's average raw output
BaseValue(ens) == (Margin(ens.proba["steady"]) + Margin(ens.proba["struggling"])) \div 2

\* the sum of the SHAP values TreeExplainer gives a row: TreeSHAP is locally
\* accurate for the raw output of the ensemble the explainer was built on
ShapSum(ens, kind) == Margin(ens.proba[kind]) - BaseValue(ens)

\* ModelExplainer.__init__, lines 21-25; exists is FALSE while the caller's
\* variable is None.  explainer is the ensemble the TreeExplainer was built
\* on (NoModel for None), expected_value its base value.
NoExplainer == [exists |-> FALSE, explainer |-> NoModel, expected_value |-> 0]

\* st.session_state.~predictions.exists, app.py lines 75-76
NoPredictions == [exists |-> FALSE, probabilities |-> <<>>, risk_labels |-> <<>>]

NewModelExplainer == [exists |-> TRUE, explainer |-> NoModel, expected_value |-> 0]

(***************************************************************************)
(* DropoutPredictor.prepare_training_data, lines 38-66                     *)
(***************************************************************************)
FeatureCols(df, target_column) ==
    SelectSeq2(ColumnNames(df), NumericNames(df) \ {"student_id", target_column})

\* the predictor after the call, and the feature matrix it returns
PrepareTrainingData(pr, df) ==
    [predictor |-> [pr EXCEPT !.feature_columns = FeatureCols(df, "dropout")],
     X |-> [cols |-> FeatureCols(df, "dropout"), rows |-> df.rows]]

(***************************************************************************)
(* DropoutPredictor.save_model, lines 247-265                              *)
(***************************************************************************)
ArtifactKeys ==
    {"model", "feature_columns", "model_version", "training_metrics", "risk_thresholds"}

ModelData(pr) ==
    [corrupt |-> FALSE, keys |-> ArtifactKeys,
     model |-> pr.model, feature_columns |-> pr.feature_columns,
     model_version |-> pr.model_version, training_metrics |-> pr.training_metrics,
     risk_thresholds |-> RISK_THRESHOLDS]

\* joblib.dump(model_data, MODELS_DIR / dropout_model_v<version>.joblib)
Dump(dir, version, data) ==
    [v \in DOMAIN dir \cup {version} |-> IF v = version THEN data ELSE dir[v]]

(***************************************************************************)
(* DropoutPredictor.train, lines 94-166.  `fail` names the step that       *)
(* raises ("none" when the call returns): the stratified split, SMOTE,     *)
(* the Optuna search, fit, the metrics, or joblib.dump inside save_model.  *)
(* The result is the predictor and the models directory the call leaves.   *)
(***************************************************************************)
TrainFailures ==
    {"none", "split", "resample", "tune", "fit", "metrics", "persist"}

\* the count of artifacts taken as the version, without the + 1
NextVersionIsCount(dir) == Cardinality(DOMAIN dir)

NextVersion(dir) == Cardinality(DOMAIN dir) + 1

Train(pr, dir, X, id, fail) ==
    LET created == [pr EXCEPT !.model = NewClassifier(id)]                    \* line 138
        fitted == [pr EXCEPT !.model = Fit(NewClassifier(id), X)]   \* 139-143
        measured == [fitted EXCEPT !.training_metrics = id]                  \* 150-151
        marked == [measured EXCEPT !.model_version = NextVersion(dir),       \* 154
                                   !.is_trained = TRUE]                      \* 155
        artifact == ModelData(marked)
    IN  CASE fail \in {"split", "resample", "tune"} ->
                [predictor |-> pr, dir |-> dir, raised |-> TRUE]
          [] fail = "fit" ->
                [predictor |-> created, dir |-> dir, raised |-> TRUE]
          [] fail = "metrics" ->
                [predictor |-> fitted, dir |-> dir, raised |-> TRUE]
          [] fail = "persist" ->
                [predictor |-> marked, dir |-> dir, raised |-> TRUE]
          [] OTHER ->
                [predictor |-> marked,
                 dir |-> Dump(dir, marked.model_version, artifact),
                 raised |-> FALSE]

(***************************************************************************)
(* DropoutPredictor.load_model, lines 267-281.  The fields are assigned    *)
(* one by one inside the try; the first missing key (or an unreadable      *)
(* file) ends the call with False and keeps the assignments made so far.   *)
(***************************************************************************)
LoadModel(pr, art) ==
    LET p1 == [pr EXCEPT !.model = art.model]                               \* line 271
        p2 == [p1 EXCEPT !.feature_columns = art.feature_columns]           \* line 272
        p3 == [p2 EXCEPT !.model_version = art.model_version]               \* line 273
        p4 == [p3 EXCEPT !.training_metrics =                               \* line 274
                    IF "training_metrics" \in art.keys THEN art.training_metrics ELSE 0]
        p5 == [p4 EXCEPT !.is_trained = TRUE]                               \* line 275
    IN  CASE art.corrupt -> [predictor |-> pr, ok |-> FALSE]
          [] "model" \notin art.keys -> [predictor |-> pr, ok |-> FALSE]
          [] "feature_columns" \notin art.keys -> [predictor |-> p1, ok |-> FALSE]
          [] "model_version" \notin art.keys -> [predictor |-> p2, ok |-> FALSE]
          [] OTHER -> [predictor |-> p5, ok |-> TRUE]

(***************************************************************************)
(* DropoutPredictor.predict, lines 207-237.  X[self.feature_columns]       *)
(* raises KeyError when X lacks one of them; the ensemble raises when it   *)
(* is None or not fitted, or when the columns it is handed are not the     *)
(* columns it was fitted on.                                               *)
(***************************************************************************)
Raised(why) == [raised |-> TRUE, error |-> why]

Scores(ens, rows) == [i \in 1..Len(rows) |-> ens.proba[rows[i]]]

Classes(probabilities) ==
    [i \in 1..Len(probabilities) |-> IF probabilities[i] > 50 THEN 1 ELSE 0]

EnsembleAccepts(ens, cols) == ens.id # 0 /\ ens.fitted /\ ens.cols = cols

Predict(pr, X) ==
    IF ~pr.is_trained THEN Raised("ValueError: Model must be trained")    \* 217-218
    ELSE IF ~(Range(pr.feature_columns) \subseteq Range(X.cols))
        THEN Raised("KeyError")                                           \* 221
    ELSE IF ~EnsembleAccepts(pr.model, pr.feature_columns)
        THEN Raised("ModelError")                                         \* 224-225
    ELSE [raised |-> FALSE,
          predictions |-> Classes(Scores(pr.model, X.rows)),
          probabilities |-> Scores(pr.model, X.rows),
          risk_labels |-> RiskLabels(Scores(pr.model, X.rows))]           \* 228-235

(***************************************************************************)
(* ModelExplainer.initialize_explainer, lines 27-43.  The result is the    *)
(* explainer object after the call and whether the call raised.            *)
(***************************************************************************)
TreeExplainerFails(ens) == ens.id = 0 \/ ~ens.fitted

InitializeExplainerUnguarded(ex, pr) ==
    IF TreeExplainerFails(pr.model) THEN [explainer |-> ex, raised |-> TRUE]
    ELSE [explainer |-> [ex EXCEPT !.explainer = pr.model,
                                   !.expected_value = BaseValue(pr.model)],
          raised |-> FALSE]

InitializeExplainer(ex, pr) ==
    IF ~pr.is_trained THEN [explainer |-> ex, raised |-> TRUE]            \* 34-35
    ELSE IF TreeExplainerFails(pr.model) THEN [explainer |-> ex, raised |-> TRUE]  \* 38
    ELSE [explainer |-> [ex EXCEPT !.explainer = pr.model,
                                   !.expected_value = BaseValue(pr.model)], \* 38, 41
          raised |-> FALSE]

(***************************************************************************)
(* ModelExplainer.explain_local, lines 81-145.  The attributions come from *)
(* the TreeExplainer (the ensemble it was built on), the prediction and    *)
(* probability from self.model.model, the predictor's ensemble at the time *)
(* of the call.  shap_of and scored_by name those two ensembles.           *)
(***************************************************************************)
ExplainRiskLevel(p) ==
    IF p >= 65 THEN "High" ELSE IF p >= 35 THEN "Medium" ELSE "Low"

ShapFails(ex, X) == ~EnsembleAccepts(ex.explainer, X.cols)

ExplainLocal(ex, pr, X, student_indices) ==
    IF ex.explainer.id = 0
        THEN Raised("ValueError: Explainer not initialized")              \* 92-93
    ELSE IF \E k \in 1..Len(student_indices) :
                student_indices[k] \notin 0..(Len(X.rows) - 1)
        THEN Raised("IndexError")                                         \* 99
    ELSE IF ShapFails(ex, X) THEN Raised("ShapError")                     \* 100
    ELSE IF Len(pr.feature_columns) # Len(X.cols)
        THEN Raised("ValueError: lengths")                                \* 107-111
    ELSE IF ~EnsembleAccepts(pr.model, X.cols)
        THEN Raised("ModelError")                                         \* 117-118
    ELSE [raised |-> FALSE,
          explanations |->
            [k \in 1..Len(student_indices) |->
                LET p == pr.model.proba[X.rows[student_indices[k] + 1]] IN
                [student_index |-> student_indices[k],
                 prediction |-> IF p > 50 THEN 1 ELSE 0,
                 probability |-> p,
                 risk_level |-> ExplainRiskLevel(p),
                 shap_sum |-> ShapSum(ex.explainer, X.rows[student_indices[k] + 1]),
                 shap_of |-> ex.explainer.id,
                 scored_by |-> pr.model.id]],
          expected_value |-> ex.expected_value]

\* ModelExplainer.explain_global, lines 45-79
ExplainGlobal(ex, pr, X) ==
    IF ex.explainer.id = 0
        THEN Raised("ValueError: Explainer not initialized")              \* 55-56
    ELSE IF ShapFails(ex, X) THEN Raised("ShapError")                     \* 59
    ELSE IF Len(pr.feature_columns) # Len(X.cols)
        THEN Raised("ValueError: lengths")                                \* 62-65
    ELSE [raised |-> FALSE, shap_of |-> ex.explainer.id,
          features |-> pr.feature_columns, expected_value |-> ex.expected_value]

\* ModelExplainer.get_summary_plot_data, lines 210-222
GetSummaryPlotData(ex, pr, X) ==
    IF ex.explainer.id = 0
        THEN Raised("ValueError: Explainer not initialized")              \* 212-213
    ELSE IF ShapFails(ex, X) THEN Raised("ShapError")                     \* 215
    ELSE [raised |-> FALSE, shap_of |-> ex.explainer.id,
          feature_names |-> pr.feature_columns, expected_value |-> ex.expected_value]

\* DataProcessor.prepare_features, lines 219-228: the numeric columns but
\* student_id, in table order
PrepareFeatures(df) ==
    [cols |-> SelectSeq2(ColumnNames(df), NumericNames(df) \ {"student_id"}),
     rows |-> df.rows]

(***************************************************************************)
(* State after construction, and the calls a holder of the predictor and   *)
(* of the explainer makes.  Each call records what it did (last);          *)
(* committed follows the predictor at every train that returns and every   *)
(* load_model that returns True.                                           *)
(***************************************************************************)
\* ensembles a holder of the predictor constructs by calling train directly,
\* and ensembles the service constructs
MaxId == 1
MaxServiceId == 2

\* the identity of an ensemble that was constructed elsewhere
ForeignId == MaxId + MaxServiceId + 1

\* an ensemble fitted elsewhere, on the first table's feature columns
ForeignEnsemble ==
    [id |-> ForeignId, cols |-> <<"attendance_percentage", "quiz_test_avg_pct">>,
     fitted |-> TRUE, proba |-> [k \in RowKinds |-> 50]]

ForeignData ==
    [corrupt |-> FALSE, keys |-> ArtifactKeys, model |-> ForeignEnsemble,
     feature_columns |-> <<"attendance_percentage", "quiz_test_avg_pct">>,
     model_version |-> ForeignId,
     training_metrics |-> ForeignId, risk_thresholds |-> RISK_THRESHOLDS]

\* thresholds another deployment configured in config.py
OtherThresholds == [high |-> 50, medium |-> 20, low |-> 0]

\* Files a caller may hand to load_model besides the ones train persisted:
\* an unreadable file, bundles lacking a field, a bundle whose
\* feature_columns name a column no table of the pipeline has, and a bundle
\* save_model wrote in a process configured with other thresholds.
ForeignArtifacts ==
    { [ForeignData EXCEPT !.corrupt = TRUE],
      [ForeignData EXCEPT !.risk_thresholds = OtherThresholds],
      [ForeignData EXCEPT !.keys = ArtifactKeys \ {"feature_columns"}],
      [ForeignData EXCEPT !.keys = ArtifactKeys \ {"training_metrics"}],
      [ForeignData EXCEPT !.feature_columns = <<"shoe_size">>,
                          !.model.cols = <<"shoe_size">>] }

PersistedArtifacts == {models_dir[v] : v \in DOMAIN models_dir}

NoCall == [op |-> "none", raised |-> FALSE]

InitSys ==
    /\ predictor = NewPredictor
    /\ explainer = NoExplainer
    /\ models_dir = <<>>
    /\ processed_data = 0
    /\ last = NoCall
    /\ committed = NewPredictor
    /\ next_id = 0

SynthIdle ==
    /\ raw_fee = NoColumn
    /\ record = <<>>
    /\ synth_weight = 0
    /\ synth_label = 0
    /\ prob = 0
    /\ risk_label = None

FillIdle ==
    /\ train_column = <<>>
    /\ batch = <<>>
    /\ X_processed = <<>>

RecIdle ==
    /\ student_data = <<>>
    /\ feature_impacts = <<>>
    /\ recommendations = <<>>
    /\ returned = <<>>

SplitIdle ==
    /\ y_counts = <<>>
    /\ use_smote = FALSE
    /\ split = <<>>
    /\ resampled = <<>>

TierIdle ==
    /\ configured = RISK_THRESHOLDS
    /\ probability = 0
    /\ predict_tier = None
    /\ explain_tier = None

MissIdle ==
    /\ column = <<>>
    /\ col_numeric = FALSE
    /\ df_processed = <<>>
    /\ processing_info = <<>>

LogIdle ==
    /\ custom_interventions = <<>>
    /\ intervention_history = <<>>
    /\ dicts = <<>>
    /\ now = 0
    /\ report = <<>>

TopIdle ==
    /\ student_shap = <<>>
    /\ top_features = <<>>

MapIdle ==
    /\ df_columns = <<>>
    /\ column_mapping = <<>>
    /\ df_mapped = <<>>

CleanIdle ==
    /\ pct_col = ""
    /\ raw_cells = <<>>
    /\ df_clean = <<>>

EngIdle ==
    /\ student_row = <<>>
    /\ other_rows = <<>>
    /\ alone_score = 0
    /\ batch_score = 0

AppIdle ==
    /\ predictions = NoPredictions

LaterIdle == LogIdle /\ TopIdle /\ MapIdle /\ CleanIdle /\ EngIdle /\ AppIdle

LogOthersIdle == TopIdle /\ MapIdle /\ CleanIdle /\ EngIdle /\ AppIdle

TopOthersIdle == LogIdle /\ MapIdle /\ CleanIdle /\ EngIdle /\ AppIdle

MapOthersIdle == LogIdle /\ TopIdle /\ CleanIdle /\ EngIdle /\ AppIdle

CleanOthersIdle == LogIdle /\ TopIdle /\ MapIdle /\ EngIdle /\ AppIdle

EngOthersIdle == LogIdle /\ TopIdle /\ MapIdle /\ CleanIdle /\ AppIdle

AppOthersIdle == LogIdle /\ TopIdle /\ MapIdle /\ CleanIdle /\ EngIdle

FirstIdle == FillIdle /\ RecIdle /\ SplitIdle /\ TierIdle /\ MissIdle

HarnessIdle == FirstIdle /\ LaterIdle

InitPureIdle ==
    /\ ppc = "idle"
    /\ SynthIdle
    /\ HarnessIdle

Init == InitPureIdle /\ InitSys

Call(op, result) == [op |-> op, raised |-> result.raised, result |-> result]

\* X, y = predictor.prepare_training_data(df)
DoPrepareTrainingData ==
    \E t \in TableIds :
        LET r == PrepareTrainingData(predictor, Tables[t]) IN
        /\ predictor' = r.predictor
        /\ last' = Call("prepare_training_data", [raised |-> FALSE, X |-> r.X])
        /\ UNCHANGED <<explainer, models_dir, processed_data, committed, next_id>>
        /\ UNCHANGED pureVars

\* predictor.train(X, y, ...) with the X prepare_training_data returned
DoTrain ==
    \E t \in TableIds, fail \in TrainFailures :
        LET X == PrepareTrainingData(predictor, Tables[t]).X
            r == Train(predictor, models_dir, X, next_id + 1, fail)
        IN
        /\ X.cols = predictor.feature_columns
        /\ next_id < MaxId
        /\ predictor' = r.predictor
        /\ models_dir' = r.dir
        /\ next_id' = IF r.predictor.model.id = next_id + 1 THEN next_id + 1 ELSE next_id
        /\ committed' = IF r.raised THEN committed ELSE r.predictor
        /\ last' = [op |-> "train", raised |-> r.raised]
        /\ UNCHANGED <<explainer, processed_data>>
        /\ UNCHANGED pureVars

\* predictor.load_model(filepath), filepath holding the artifact art
LoadStep(art) ==
    LET r == LoadModel(predictor, art) IN
    /\ predictor' = r.predictor
    /\ committed' = IF r.ok THEN r.predictor ELSE committed
    /\ last' = [op |-> "load_model", raised |-> FALSE, ok |-> r.ok]
    /\ UNCHANGED <<explainer, models_dir, processed_data, next_id>>
    /\ UNCHANGED pureVars

DoLoadModel == \E art \in PersistedArtifacts \cup ForeignArtifacts : LoadStep(art)

PredictInputs ==
    {PrepareFeatures(Tables[t]) : t \in TableIds}
        \cup {PrepareTrainingData(NewPredictor, Tables[t]).X : t \in TableIds}

\* predict(X) that keeps the reindexed column list on the predictor
PredictStepAdopting(X) ==
    /\ last' = Call("predict", Predict(predictor, X))
    /\ predictor' = [predictor EXCEPT !.feature_columns =
                        SelectSeq2(predictor.feature_columns, Range(X.cols))]
    /\ UNCHANGED <<explainer, models_dir, processed_data, committed, next_id>>
    /\ UNCHANGED pureVars

\* predictor.predict(X)
PredictStep(X) ==
    /\ last' = Call("predict", Predict(predictor, X))
    /\ UNCHANGED <<predictor, explainer, models_dir, processed_data, committed, next_id>>
    /\ UNCHANGED pureVars

DoPredict == \E X \in PredictInputs : PredictStep(X)

\* explainer = ModelExplainer(predictor)
DoNewModelExplainer ==
    /\ explainer' = NewModelExplainer
    /\ last' = [op |-> "ModelExplainer", raised |-> FALSE]
    /\ UNCHANGED <<predictor, models_dir, processed_data, committed, next_id>>
    /\ UNCHANGED pureVars

\* explainer.initialize_explainer(X)
DoInitializeExplainer ==
    /\ explainer.exists
    /\ LET r == InitializeExplainer(explainer, predictor) IN
        /\ explainer' = r.explainer
        /\ last' = [op |-> "initialize_explainer", raised |-> r.raised]
    /\ UNCHANGED <<predictor, models_dir, processed_data, committed, next_id>>
    /\ UNCHANGED pureVars

\* explainer.explain_local(X, [i])
DoExplainLocal ==
    /\ explainer.exists
    /\ \E X \in PredictInputs, i \in 0..1 :
        last' = Call("explain_local", ExplainLocal(explainer, predictor, X, <<i>>))
    /\ UNCHANGED <<predictor, explainer, models_dir, processed_data, committed, next_id>>
    /\ UNCHANGED pureVars

\* explainer.explain_global(X)
DoExplainGlobal ==
    /\ explainer.exists
    /\ \E X \in PredictInputs :
        last' = Call("explain_global", ExplainGlobal(explainer, predictor, X))
    /\ UNCHANGED <<predictor, explainer, models_dir, processed_data, committed, next_id>>
    /\ UNCHANGED pureVars

\* explainer.get_summary_plot_data(X)
DoGetSummaryPlotData ==
    /\ explainer.exists
    /\ \E X \in PredictInputs :
        last' = Call("get_summary_plot_data", GetSummaryPlotData(explainer, predictor, X))
    /\ UNCHANGED <<predictor, explainer, models_dir, processed_data, committed, next_id>>
    /\ UNCHANGED pureVars

Next ==
    \/ DoPrepareTrainingData
    \/ DoTrain
    \/ DoLoadModel
    \/ DoPredict
    \/ DoNewModelExplainer
    \/ DoInitializeExplainer
    \/ DoExplainLocal
    \/ DoExplainGlobal
    \/ DoGetSummaryPlotData

Spec == Init /\ [][Next]_vars


(***************************************************************************)
(* Inputs of the pure-function harness                                     *)
(***************************************************************************)
\* every probability 0.00 .. 1.00, in hundredths
Probabilities == 0..100

AttendanceValues == {40, 59, 60, 85}
TimelinessValues == {45, 50}
QuizValues == {45, 50}
LoginValues == {2, 5}
RawFeeValues == FeeKeys \cup {"waived", NoColumn}

NumericColumns ==
    {"attendance_percentage", "assignment_timeliness", "quiz_test_avg_pct",
     "lms_login_count_monthly"}

ColumnValues(c) ==
    CASE c = "attendance_percentage"   -> AttendanceValues
      [] c = "assignment_timeliness"   -> TimelinessValues
      [] c = "quiz_test_avg_pct"       -> QuizValues
      [] c = "lms_login_count_monthly" -> LoginValues

\* Every record over every subset of the numeric columns (a column left out
\* is absent from the table or null in this row).
InputRecords ==
    UNION {{r \in [S -> UNION {ColumnValues(c) : c \in S}] :
                \A c \in S : r[c] \in ColumnValues(c)} : S \in SUBSET NumericColumns}

InitPure ==
    /\ ppc = "input"
    /\ raw_fee \in RawFeeValues
    /\ record \in InputRecords
    /\ synth_weight = 0
    /\ synth_label = 0
    /\ prob \in Probabilities
    /\ risk_label = None
    /\ HarnessIdle
    /\ InitSys

\* target = self._create_synthetic_target(df) on the cleaned record
CreateSyntheticTarget ==
    /\ ppc = "input"
    /\ LET rec == CleanFee(record, raw_fee) IN
        /\ record' = rec
        /\ synth_weight' = SyntheticWeight(rec)
        /\ synth_label' = SyntheticLabel(rec)
    /\ ppc' = "labelled"
    /\ UNCHANGED <<raw_fee, prob, risk_label>>
    /\ UNCHANGED harnessVars
    /\ UNCHANGED sysVars

\* one iteration of the tier loop of predict
AppendRiskLabel ==
    /\ ppc = "labelled"
    /\ risk_label' = RiskLabel(prob)
    /\ ppc' = "done"
    /\ UNCHANGED <<raw_fee, record, synth_weight, synth_label, prob>>
    /\ UNCHANGED harnessVars
    /\ UNCHANGED sysVars

NextPure == CreateSyntheticTarget \/ AppendRiskLabel

SpecPure == InitPure /\ [][NextPure]_vars

(***************************************************************************)
(* Missing cells at prediction time, one feature column at a time.         *)
(* predict line 221: X[cols].fillna(X[cols].median()) -- the median is     *)
(* taken over the batch being scored, skipping null cells; a column with   *)
(* no value at all has median NaN and fillna(NaN) leaves its cells null.   *)
(* predict_single lines 215-220 replaces the nulls of its one-row frame by *)
(* 0 before it calls predict.                                              *)
(***************************************************************************)
NaN == -1

RECURSIVE SortedInsert(_, _)
SortedInsert(s, v) ==
    IF s = <<>> THEN <<v>>
    ELSE IF v <= Head(s) THEN <<v>> \o s
    ELSE <<Head(s)>> \o SortedInsert(Tail(s), v)

RECURSIVE SortValues(_)
SortValues(s) == IF s = <<>> THEN <<>> ELSE SortedInsert(SortValues(Tail(s)), Head(s))

NotNull(c) == c # NaN

\* Series.median(): the middle of the non-null cells, the mean of the two
\* middle ones when their number is even, NaN when there is none
Median(cells) ==
    LET v == SortValues(SelectSeq(cells, NotNull))
        n == Len(v)
    IN  IF n = 0 THEN NaN
        ELSE IF n % 2 = 1 THEN v[(n + 1) \div 2]
        ELSE (v[n \div 2] + v[n \div 2 + 1]) \div 2

\* Series.fillna(value): fillna(NaN) changes nothing
FillNa(cells, value) ==
    [i \in 1..Len(cells) |-> IF cells[i] = NaN THEN value ELSE cells[i]]

\* X[self.feature_columns].fillna(X[self.feature_columns].median())
PredictFill(cells) == FillNa(cells, Median(cells))

MaxBatch == 3
MaxTrainRows == 2

\* cell values are even so that the mean of two of them is whole
CellValues == {40, 60, 80}

SeqsUpTo(S, n) == UNION {[1..k -> S] : k \in 1..n}

InitFill ==
    /\ ppc = "fill_input"
    /\ train_column \in SeqsUpTo(CellValues, MaxTrainRows)
    /\ batch \in SeqsUpTo(CellValues \cup {NaN}, MaxBatch)
    /\ X_processed = <<>>
    /\ SynthIdle
    /\ RecIdle
    /\ SplitIdle
    /\ TierIdle
    /\ MissIdle
    /\ LaterIdle
    /\ InitSys

\* predictor.predict(X) on the batch
FillAtPredict ==
    /\ ppc = "fill_input"
    /\ X_processed' = PredictFill(batch)
    /\ ppc' = "filled"
    /\ UNCHANGED <<train_column, batch>>
    /\ UNCHANGED <<synthVars, recVars, splitVars, tierVars, missVars, sysVars, laterVars>>

\* POST /predict: the one-row frame, nulls replaced by 0, then predict
FillAtPredictSingle ==
    /\ ppc = "fill_input"
    /\ Len(batch) = 1
    /\ X_processed' = PredictFill(FillNa(batch, 0))
    /\ ppc' = "filled_single"
    /\ UNCHANGED <<train_column, batch>>
    /\ UNCHANGED <<synthVars, recVars, splitVars, tierVars, missVars, sysVars, laterVars>>

NextFill == FillAtPredict \/ FillAtPredictSingle

SpecFill == InitFill /\ [][NextFill]_vars

(***************************************************************************)
(* intervention_system.py: InterventionRecommender.                        *)
(* analyze_student_risk_factors, lines 23-51, and the five analyzers it    *)
(* calls, lines 53-212.  Impacts are SHAP values in hundredths; the fee    *)
(* status is in tenths as elsewhere.  A recommendation is kept as its      *)
(* factor and the two scores the sort looks at.                            *)
(***************************************************************************)
Get(d, k, default) == IF k \in DOMAIN d THEN d[k] ELSE default

Abs(x) == IF x < 0 THEN -x ELSE x

Recommendation(factor, priority_score, impact) ==
    [factor |-> factor, priority_score |-> priority_score, impact_score |-> Abs(impact)]

\* the same check with both conditions required
RiskCheckBoth(sd, fi, k, default, limit, impact_limit, factor, priority_score) ==
    IF Get(sd, k, default) < limit /\ Get(fi, k, 0) < impact_limit
    THEN <<Recommendation(factor, priority_score, Get(fi, k, 0))>>
    ELSE <<>>

\* one `if value < limit or impact < impact_limit: recommendations.append(...)`
RiskCheck(sd, fi, k, default, limit, impact_limit, factor, priority_score) ==
    IF Get(sd, k, default) < limit \/ Get(fi, k, 0) < impact_limit
    THEN <<Recommendation(factor, priority_score, Get(fi, k, 0))>>
    ELSE <<>>

AnalyzeAttendanceRisk(sd, fi) ==                                           \* 53-75
    RiskCheck(sd, fi, "attendance_percentage", 100, 70, -10, "Low Attendance", 9)

AnalyzeAcademicPerformanceRisk(sd, fi) ==                                  \* 77-119
    RiskCheck(sd, fi, "quiz_test_avg_pct", 100, 60, -10, "Poor Academic Performance", 8)
    \o RiskCheck(sd, fi, "assignment_timeliness", 100, 50, -10, "Assignment Delays", 6)

AnalyzeFinancialRisk(sd, fi) ==                                            \* 121-143
    RiskCheck(sd, fi, "fee_payment_status", 10, 10, -10, "Financial Issues", 9)

AnalyzeEngagementRisk(sd, fi) ==                                           \* 145-187
    RiskCheck(sd, fi, "lms_login_count_monthly", 0, 5, -5, "Low Online Engagement", 5)
    \o RiskCheck(sd, fi, "time_spent_online_hours_week", 0, 3, -5, "Low Online Activity", 4)

AnalyzeBehavioralRisk(sd, fi) ==                                           \* 189-212
    RiskCheck(sd, fi, "socioeconomic_status", 3, 2, -5, "Socioeconomic Challenges", 7)

\* lines 42-46
TriggeredRecommendations(sd, fi) ==
    AnalyzeAttendanceRisk(sd, fi) \o AnalyzeAcademicPerformanceRisk(sd, fi)
    \o AnalyzeFinancialRisk(sd, fi) \o AnalyzeEngagementRisk(sd, fi)
    \o AnalyzeBehavioralRisk(sd, fi)

\* the sort key (priority_score, impact_score), compared as tuples
KeyLess(a, b) ==
    \/ a.priority_score < b.priority_score
    \/ a.priority_score = b.priority_score /\ a.impact_score < b.impact_score

RECURSIVE InsertDescending(_, _)
\* r goes behind every element whose key is not less than its own
InsertDescending(s, r) ==
    IF s = <<>> THEN <<r>>
    ELSE IF KeyLess(Head(s), r) THEN <<r>> \o s
    ELSE <<Head(s)>> \o InsertDescending(Tail(s), r)

RECURSIVE InsertAscending(_, _)
InsertAscending(s, r) ==
    IF s = <<>> THEN <<r>>
    ELSE IF KeyLess(r, Head(s)) THEN <<r>> \o s
    ELSE <<Head(s)>> \o InsertAscending(Tail(s), r)

RECURSIVE SortAscending(_)
SortAscending(recs) ==
    IF recs = <<>> THEN <<>>
    ELSE InsertAscending(SortAscending(SubSeq(recs, 1, Len(recs) - 1)), recs[Len(recs)])

RECURSIVE SortRecommendations(_)
\* recommendations.sort(key=..., reverse=True), line 49: stable, descending
SortRecommendations(recs) ==
    IF recs = <<>> THEN <<>>
    ELSE InsertDescending(SortRecommendations(SubSeq(recs, 1, Len(recs) - 1)),
                          recs[Len(recs)])

\* recommendations[:5], line 51
Top5(recs) == SubSeq(recs, 1, IF Len(recs) < 5 THEN Len(recs) ELSE 5)

AnalyzeStudentRiskFactors(sd, fi) == Top5(SortRecommendations(TriggeredRecommendations(sd, fi)))

\* Inputs: for each field a value on either side of its limit, or no such
\* key; SHAP values for the features the explained model was trained on.
StudentFields ==
    {"attendance_percentage", "quiz_test_avg_pct", "assignment_timeliness",
     "fee_payment_status", "lms_login_count_monthly",
     "time_spent_online_hours_week", "socioeconomic_status"}

\* per field: a value below its limit and a value at or above it
FieldValues(k) ==
    CASE k = "attendance_percentage"        -> <<65, 90>>
      [] k = "quiz_test_avg_pct"            -> <<55, 80>>
      [] k = "assignment_timeliness"        -> <<45, 80>>
      [] k = "fee_payment_status"           -> <<5, 10>>
      [] k = "lms_login_count_monthly"      -> <<3, 20>>
      [] k = "time_spent_online_hours_week" -> <<2, 10>>
      [] k = "socioeconomic_status"         -> <<1, 3>>

\* every dict that has, for each field, either value or no such key
StudentRecords ==
    {[k \in {f \in StudentFields : pick[f] # 0} |-> FieldValues(k)[pick[k]]] :
        pick \in [StudentFields -> 0..2]}

ExplainedFeatures ==
    {"attendance_percentage", "fee_payment_status", "lms_login_count_monthly",
     "socioeconomic_status"}

ShapValues == {-20, -7, 0}

InitRecommend ==
    /\ ppc = "recommend_input"
    /\ student_data \in StudentRecords
    /\ feature_impacts \in [ExplainedFeatures -> ShapValues]
    /\ recommendations = <<>>
    /\ returned = <<>>
    /\ SynthIdle
    /\ FillIdle
    /\ SplitIdle
    /\ TierIdle
    /\ MissIdle
    /\ LaterIdle
    /\ InitSys

\* recommender.analyze_student_risk_factors(student_data, shap_values, feature_names)
DoAnalyzeStudentRiskFactors ==
    /\ ppc = "recommend_input"
    /\ recommendations' = TriggeredRecommendations(student_data, feature_impacts)
    /\ returned' = AnalyzeStudentRiskFactors(student_data, feature_impacts)
    /\ ppc' = "recommended"
    /\ UNCHANGED <<student_data, feature_impacts>>
    /\ UNCHANGED <<synthVars, fillVars, splitVars, tierVars, missVars, sysVars, laterVars>>

NextRecommend == DoAnalyzeStudentRiskFactors

SpecRecommend == InitRecommend /\ [][NextRecommend]_vars

\* The same call on a record with one field (or none) and one attribution
\* (or none), the values on and around every limit of lines 60-197.
RawValues == {0, 1, 2, 3, 4, 5, 9, 10, 49, 50, 59, 60, 69, 70, 100}

ImpactValues == {-20, -11, -10, -9, -6, -5, -4, 0, 15}

InitAnalyzer ==
    /\ ppc = "recommend_input"
    /\ \E k \in StudentFields :
          /\ student_data \in {<<>>} \cup {[f \in {k} |-> v] : v \in RawValues}
          /\ feature_impacts \in {<<>>} \cup {[f \in {k} |-> a] : a \in ImpactValues}
    /\ recommendations = <<>>
    /\ returned = <<>>
    /\ SynthIdle
    /\ FillIdle
    /\ SplitIdle
    /\ TierIdle
    /\ MissIdle
    /\ LaterIdle
    /\ InitSys

SpecAnalyzer == InitAnalyzer /\ [][NextRecommend]_vars

(***************************************************************************)
(* DropoutPredictor.train, lines 111-123: the two stratified splits and    *)
(* the SMOTE step, on class counts.  train_test_split(test_size=f,         *)
(* stratify=y) puts ceil(f * n) rows in the second part and the rest in    *)
(* the first, refuses a class with a single member and a part smaller      *)
(* than the number of classes, and gives each class its share of the first *)
(* part rounded down, the row left over going to the class with the larger *)
(* remainder (either class on a tie); the second part gets the rows left.  *)
(* SMOTE(k_neighbors=5) needs six rows of the minority class and then      *)
(* adds synthetic minority rows until the classes are level.               *)
(***************************************************************************)
Counts(neg, pos) == [neg |-> neg, pos |-> pos]

Total(c) == c.neg + c.pos

NClasses(c) == Indicator(c.neg > 0) + Indicator(c.pos > 0)

LeastPopulated(c) ==
    IF c.neg = 0 THEN c.pos ELSE IF c.pos = 0 THEN c.neg
    ELSE IF c.neg < c.pos THEN c.neg ELSE c.pos

\* ceil(n * num / den)
CeilFraction(n, num, den) == (n * num + den - 1) \div den

\* the allocations of n draws to the two classes in proportion to c
ApproximateMode(c, n) ==
    LET f0 == (c.neg * n) \div Total(c)
        f1 == (c.pos * n) \div Total(c)
        r0 == (c.neg * n) % Total(c)
        r1 == (c.pos * n) % Total(c)
    IN  IF f0 + f1 = n THEN {Counts(f0, f1)}
        ELSE IF r0 > r1 THEN {Counts(f0 + 1, f1)}
        ELSE IF r1 > r0 THEN {Counts(f0, f1 + 1)}
        ELSE {Counts(f0 + 1, f1), Counts(f0, f1 + 1)}

SplitRaises(c, num, den) ==
    LET n_test == CeilFraction(Total(c), num, den)
        n_train == Total(c) - n_test
    IN  \/ Total(c) = 0
        \/ n_train = 0
        \/ LeastPopulated(c) < 2
        \/ n_train < NClasses(c)
        \/ n_test < NClasses(c)

\* the possible results [first, second] of train_test_split(test_size=num/den)
TrainTestSplit(c, num, den) ==
    LET n_test == CeilFraction(Total(c), num, den)
        n_train == Total(c) - n_test
    IN  {[first |-> a, second |-> Counts(c.neg - a.neg, c.pos - a.pos)] :
            a \in ApproximateMode(c, n_train)}

\* lines 112-117: the results [train, val, test] of the two splits
TrainValTest(c) ==
    UNION {{[train |-> s1.first, val |-> s2.first, test |-> s2.second] :
                s2 \in IF SplitRaises(s1.second, 1, 2) THEN {}
                       ELSE TrainTestSplit(s1.second, 1, 2)} :
           s1 \in IF SplitRaises(c, 3, 10) THEN {} ELSE TrainTestSplit(c, 3, 10)}

\* some way through the two splits ends in a ValueError
SomeSplitRaises(c) ==
    \/ SplitRaises(c, 3, 10)
    \/ \E s1 \in TrainTestSplit(c, 3, 10) : SplitRaises(s1.second, 1, 2)

\* line 120: use_smote and len(np.unique(y_train)) > 1
SmoteApplies(smote, train) == smote /\ NClasses(train) > 1

SmoteRaises(train) == LeastPopulated(train) < 6

\* a step that leaves the training split as it is
FitResampleNothing(train) == train

\* smote.fit_resample(X_train, y_train)
FitResample(train) ==
    LET m == IF train.neg > train.pos THEN train.neg ELSE train.pos
    IN  Counts(m, m)

MaxPositives == 12

TotalRows == {20, 40, 100}

InitSplit ==
    /\ ppc = "train_input"
    /\ \E n \in TotalRows, pos \in 0..MaxPositives : y_counts = Counts(n - pos, pos)
    /\ use_smote \in BOOLEAN
    /\ split = <<>>
    /\ resampled = <<>>
    /\ SynthIdle
    /\ FillIdle
    /\ RecIdle
    /\ TierIdle
    /\ MissIdle
    /\ LaterIdle
    /\ InitSys

\* lines 112-117
SplitData ==
    /\ ppc = "train_input"
    /\ \/ /\ SomeSplitRaises(y_counts)
          /\ ppc' = "train_raised"
          /\ UNCHANGED split
       \/ /\ split' \in TrainValTest(y_counts)
          /\ ppc' = "split"
    /\ UNCHANGED <<y_counts, use_smote, resampled>>
    /\ UNCHANGED <<synthVars, fillVars, recVars, tierVars, missVars, sysVars, laterVars>>

\* lines 120-123
HandleImbalance ==
    /\ ppc = "split"
    /\ IF SmoteApplies(use_smote, split.train)
       THEN IF SmoteRaises(split.train)
            THEN ppc' = "train_raised" /\ UNCHANGED resampled
            ELSE /\ resampled' = [split EXCEPT !.train = FitResample(split.train)]
                 /\ ppc' = "resampled"
       ELSE resampled' = split /\ ppc' = "resampled"
    /\ UNCHANGED <<y_counts, use_smote, split>>
    /\ UNCHANGED <<synthVars, fillVars, recVars, tierVars, missVars, sysVars, laterVars>>

NextSplit == SplitData \/ HandleImbalance

SpecSplit == InitSplit /\ [][NextSplit]_vars

(***************************************************************************)
(* The tier of one probability under the thresholds config.py sets:        *)
(* predict compares with RISK_THRESHOLDS (model_trainer.py lines 229-235), *)
(* explain_local with the literals 0.65 and 0.35 (explainability.py lines  *)
(* 120-126).                                                               *)
(***************************************************************************)
ThresholdConfigs ==
    {RISK_THRESHOLDS, OtherThresholds, [high |-> 80, medium |-> 40, low |-> 0]}

InitTier ==
    /\ ppc = "tier_input"
    /\ configured \in ThresholdConfigs
    /\ probability \in Probabilities
    /\ predict_tier = None
    /\ explain_tier = None
    /\ SynthIdle
    /\ FillIdle
    /\ RecIdle
    /\ SplitIdle
    /\ MissIdle
    /\ LaterIdle
    /\ InitSys

\* predict: the loop body for the record's probability
TierAtPredict ==
    /\ ppc = "tier_input"
    /\ predict_tier' = RiskLabelUnder(configured, probability)
    /\ ppc' = "tier_predicted"
    /\ UNCHANGED <<configured, probability, explain_tier>>
    /\ UNCHANGED <<synthVars, fillVars, recVars, splitVars, missVars, sysVars, laterVars>>

\* explain_local: the risk level for the same record
TierAtExplainLocal ==
    /\ ppc = "tier_predicted"
    /\ explain_tier' = ExplainRiskLevel(probability)
    /\ ppc' = "tier_explained"
    /\ UNCHANGED <<configured, probability, predict_tier>>
    /\ UNCHANGED <<synthVars, fillVars, recVars, splitVars, missVars, sysVars, laterVars>>

NextTier == TierAtPredict \/ TierAtExplainLocal

SpecTier == InitTier /\ [][NextTier]_vars

(***************************************************************************)
(* DataProcessor.validate_and_preprocess, lines 26-70, followed for one    *)
(* column of the upload that the other steps leave alone (no expected      *)
(* name, no range rule).  _handle_missing_values, lines 133-157, records   *)
(* count and percentage, logs a warning above 30% and imputes up to 30%;   *)
(* _encode_categorical_variables, lines 207-217, replaces an object column *)
(* by one indicator column per category found in it.  The cells of an      *)
(* object column are category codes.                                       *)
(***************************************************************************)
MissingCount(cells) == Cardinality({i \in 1..Len(cells) : cells[i] = NaN})

\* (missing_count / len(df)) * 100 > 30, without the division
Over30Percent(cells) == MissingCount(cells) * 100 > 30 * Len(cells)

Occurrences(cells, v) == Cardinality({i \in 1..Len(cells) : cells[i] = v})

HasMode(cells) == \E i \in 1..Len(cells) : cells[i] # NaN

\* Series.mode()[0]: the most frequent non-null value, the smallest of them
\* when several are as frequent
Mode(cells) ==
    LET vals == {cells[i] : i \in 1..Len(cells)} \ {NaN}
        top == {v \in vals : \A w \in vals : Occurrences(cells, w) <= Occurrences(cells, v)}
    IN  CHOOSE v \in top : \A w \in top : v <= w

\* lines 143-155, the column after the step
ImputeColumn(cells, numeric) ==
    IF MissingCount(cells) = 0 \/ Over30Percent(cells) THEN cells
    ELSE IF numeric THEN FillNa(cells, Median(cells))
    ELSE IF HasMode(cells) THEN FillNa(cells, Mode(cells))
    ELSE cells

\* line 141
MissingInfo(cells) ==
    [count |-> MissingCount(cells), over_30_percent |-> Over30Percent(cells)]

\* the entries the call appends to processing_info["warnings"]: none; line
\* 145 writes to the log only
ReportedWarnings(cells) == <<>>

\* the column in the returned frame: kept as it is when numeric, replaced by
\* the indicator columns of its categories when object (lines 212-215)
ReturnedColumn(cells, numeric) ==
    IF numeric THEN [kept |-> TRUE, cells |-> ImputeColumn(cells, numeric)]
    ELSE [kept |-> FALSE, cells |-> ImputeColumn(cells, numeric),
          indicators |-> {ImputeColumn(cells, numeric)[i] : i \in 1..Len(cells)} \ {NaN}]

ValidateAndPreprocess(cells, numeric) ==
    [df |-> ReturnedColumn(cells, numeric),
     info |-> [missing_data |-> MissingInfo(cells),                        \* 56-57
               validation_errors |-> <<>>,                                 \* 60-61
               warnings |-> ReportedWarnings(cells)]]                      \* 46

MaxRows == 4

InitMissing ==
    /\ ppc = "upload_input"
    /\ column \in SeqsUpTo({40, 60, NaN}, MaxRows)
    /\ col_numeric \in BOOLEAN
    /\ df_processed = <<>>
    /\ processing_info = <<>>
    /\ SynthIdle
    /\ FillIdle
    /\ RecIdle
    /\ SplitIdle
    /\ TierIdle
    /\ LaterIdle
    /\ InitSys

\* df_processed, processing_info = processor.validate_and_preprocess(df)
DoValidateAndPreprocess ==
    /\ ppc = "upload_input"
    /\ LET r == ValidateAndPreprocess(column, col_numeric) IN
        /\ df_processed' = r.df
        /\ processing_info' = r.info
    /\ ppc' = "preprocessed"
    /\ UNCHANGED <<column, col_numeric>>
    /\ UNCHANGED <<synthVars, fillVars, recVars, splitVars, tierVars, sysVars, laterVars>>

NextMissing == DoValidateAndPreprocess

SpecMissing == InitMissing /\ [][NextMissing]_vars

(***************************************************************************)
(* InterventionRecommender's logs, intervention_system.py lines 316-366.   *)
(* add_custom_intervention writes two keys into the dict it is handed and  *)
(* appends that dict object itself to the student's list; a caller may     *)
(* hand the same dict object to more than one call.  A success rate is the *)
(* pair <<successes, outcomes>> of the division the code makes, <<0, 1>>   *)
(* for the 0.0 of an empty list.                                           *)
(***************************************************************************)
MaxCalls == 3

Students == {"s1", "s2"}

\* the dict objects callers hold: an intervention without the two keys
DictRefs == {1, 2}

NewDict == [created_date |-> 0, type |-> "given"]

\* outcome dicts: success true, success false, no 'success' key
Outcomes == {[success |-> TRUE], [success |-> FALSE], [note |-> "seen"]}

\* lines 316-325
AddCustomIntervention(ci, d, t, student_id, ref) ==
    [custom_interventions |->
        [s \in DOMAIN ci \cup {student_id} |->
            IF s = student_id
            THEN Append(IF s \in DOMAIN ci THEN ci[s] ELSE <<>>, ref)     \* 318-319, 323
            ELSE ci[s]],
     dicts |-> [d EXCEPT ![ref] = [created_date |-> t, type |-> "custom"]]] \* 321-322

\* lines 327-329
GetInterventionHistory(ci, student_id) ==
    IF student_id \in DOMAIN ci THEN ci[student_id] ELSE <<>>

\* lines 331-342
TrackInterventionOutcome(h, t, student_id, intervention_id, outcome) ==
    Append(h, [student_id |-> student_id, intervention_id |-> intervention_id,
               outcome |-> outcome, tracked_date |-> t])

\* outcome['outcome'].get('success', False), line 364
Successful(o) == "success" \in DOMAIN o.outcome /\ o.outcome.success

\* lines 358-366
CalculateSuccessRate(outcomes) ==
    IF outcomes = <<>> THEN <<0, 1>>                                      \* 360-361
    ELSE <<Len(SelectSeq(outcomes, Successful)), Len(outcomes)>>          \* 363-366

\* [h for h in self.intervention_history if h['student_id'] == student_id]
TrackedOutcomes(h, student_id) ==
    LET Mine(o) == o.student_id = student_id IN SelectSeq(h, Mine)

\* lines 344-356
GenerateInterventionReport(ci, h, t, student_id) ==
    [student_id |-> student_id,
     report_date |-> t,
     custom_interventions |-> GetInterventionHistory(ci, student_id),
     tracked_outcomes |-> TrackedOutcomes(h, student_id),
     total_interventions |-> Len(GetInterventionHistory(ci, student_id)),
     total_outcomes |-> Len(TrackedOutcomes(h, student_id)),
     success_rate |-> CalculateSuccessRate(TrackedOutcomes(h, student_id))]

\* InterventionRecommender.__init__, lines 18-21
InitLog ==
    /\ ppc = "log"
    /\ custom_interventions = <<>>
    /\ intervention_history = <<>>
    /\ dicts = [ref \in DictRefs |-> NewDict]
    /\ now = 1
    /\ report = <<>>
    /\ SynthIdle
    /\ FirstIdle
    /\ LogOthersIdle
    /\ InitSys

AddStep(student_id, ref) ==
    LET r == AddCustomIntervention(custom_interventions, dicts, now, student_id, ref) IN
    /\ ppc = "log"
    /\ now <= MaxCalls
    /\ custom_interventions' = r.custom_interventions
    /\ dicts' = r.dicts
    /\ now' = now + 1
    /\ UNCHANGED <<ppc, intervention_history, report>>
    /\ UNCHANGED <<synthVars, firstVars, logOthers, sysVars>>

DoAddCustomIntervention == \E student_id \in Students, ref \in DictRefs : AddStep(student_id, ref)

DoTrackInterventionOutcome ==
    \E student_id \in Students, outcome \in Outcomes :
        /\ ppc = "log"
        /\ now <= MaxCalls
        /\ intervention_history' =
                TrackInterventionOutcome(intervention_history, now, student_id, "i1", outcome)
        /\ now' = now + 1
        /\ UNCHANGED <<ppc, custom_interventions, dicts, report>>
        /\ UNCHANGED <<synthVars, firstVars, logOthers, sysVars>>

ReportStep(student_id) ==
    /\ ppc = "log"
    /\ report' = GenerateInterventionReport(custom_interventions, intervention_history,
                                            now, student_id)
    /\ UNCHANGED <<ppc, custom_interventions, intervention_history, dicts, now>>
    /\ UNCHANGED <<synthVars, firstVars, logOthers, sysVars>>

DoGenerateInterventionReport == \E student_id \in Students : ReportStep(student_id)

NextLog ==
    \/ DoAddCustomIntervention
    \/ DoTrackInterventionOutcome
    \/ DoGenerateInterventionReport

SpecLog == InitLog /\ [][NextLog]_vars

(***************************************************************************)
(* ModelExplainer.explain_local, lines 104-114: the top features of one    *)
(* explained record.  sort_values('abs_shap_value', ascending=False) uses  *)
(* pandas' default quicksort, which fixes no order among equal keys: the   *)
(* sorted frame is any arrangement of the rows in non-increasing order of  *)
(* abs_shap_value.  A feature is named by its place in feature_columns.    *)
(***************************************************************************)
MaxFeatures == 4

\* pd.DataFrame({'feature': ..., 'shap_value': ..., 'abs_shap_value': ...})
FeatureContributions(shap) ==
    [i \in 1..Len(shap) |->
        [feature |-> i, shap_value |-> shap[i], abs_shap_value |-> Abs(shap[i])]]

Orders(n) == {o \in [1..n -> 1..n] : \A i, j \in 1..n : o[i] = o[j] => i = j}

\* the arrangement puts the rows in non-decreasing order of abs_shap_value
IsAscendingOrder(frame, o) ==
    \A i, j \in 1..Len(frame) :
        i < j => frame[o[i]].abs_shap_value <= frame[o[j]].abs_shap_value

\* .sort_values('abs_shap_value', ascending=False), line 110
IsSortValuesOrder(frame, o) ==
    \A i, j \in 1..Len(frame) :
        i < j => frame[o[i]].abs_shap_value >= frame[o[j]].abs_shap_value

\* .head(3), line 113
Head3(frame) == SubSeq(frame, 1, IF Len(frame) < 3 THEN Len(frame) ELSE 3)

\* the attributions TreeExplainer gives, in hundredths
AttributionValues == {-20, -7, 0, 7}

InitTop ==
    /\ ppc = "top_input"
    /\ student_shap \in SeqsUpTo(AttributionValues, MaxFeatures)
    /\ student_shap # <<>>
    /\ top_features = <<>>
    /\ SynthIdle
    /\ FirstIdle
    /\ TopOthersIdle
    /\ InitSys

\* one pass of the loop of lines 104-114
TopFeaturesStep ==
    LET frame == FeatureContributions(student_shap) IN
    /\ ppc = "top_input"
    /\ \E o \in Orders(Len(frame)) :
          /\ IsSortValuesOrder(frame, o)
          /\ top_features' = Head3([i \in 1..Len(frame) |-> frame[o[i]]])
    /\ ppc' = "top_done"
    /\ UNCHANGED student_shap
    /\ UNCHANGED <<synthVars, firstVars, topOthers, sysVars>>

NextTop == TopFeaturesStep

SpecTop == InitTop /\ [][NextTop]_vars

(***************************************************************************)
(* api.py: the service.  It owns one predictor (`model`), one explainer    *)
(* (`explainer`, None until a training request builds one), the models     *)
(* directory and temp_processed_data.csv.  Handlers are async functions    *)
(* without an await between their reads and writes of that state, so each  *)
(* request is one step.                                                    *)
(***************************************************************************)
RECURSIVE Digits(_)
Digits(n) == IF n < 10 THEN <<n>> ELSE Digits(n \div 10) \o <<n % 10>>

RECURSIVE LexLess(_, _)
\* 'dropout_model_v<a>.joblib' < 'dropout_model_v<b>.joblib' as strings: the
\* digit strings are compared character by character, and where one ends the
\* '.' that follows it sorts before any digit
LexLess(a, b) ==
    IF a = <<>> THEN b # <<>>
    ELSE IF b = <<>> THEN FALSE
    ELSE IF Head(a) # Head(b) THEN Head(a) < Head(b)
    ELSE LexLess(Tail(a), Tail(b))

\* sorted(MODELS_DIR.glob('dropout_model_*.joblib'))[-1], lines 87-89
LatestFile(dir) ==
    CHOOSE v \in DOMAIN dir :
        \A w \in DOMAIN dir \ {v} : LexLess(Digits(w), Digits(v))

\* module import, lines 46-49 and 85-97: a fresh predictor, no explainer,
\* then the newest artifact is loaded if there is one
AutoLoadLatestModel(dir) ==
    IF DOMAIN dir = {} THEN [predictor |-> NewPredictor, ok |-> FALSE]
    ELSE LoadModel(NewPredictor, dir[LatestFile(dir)])

\* explainer = ModelExplainer(model); explainer.initialize_explainer(X),
\* and explainer = None when that raises (lines 132-137, 168-173)
FreshExplainer(pr) ==
    LET r == InitializeExplainer(NewModelExplainer, pr) IN
    IF r.raised THEN NoExplainer ELSE r.explainer

\* the explainer left by a handler that prepared and trained with outcome r:
\* replaced when train returned, untouched when train raised
ExplainerAfterTrain(ex, r) == IF r.raised THEN ex ELSE FreshExplainer(r.predictor)

\* predict_single lines 205-225: the one-row matrix handed to predict
SingleRowFeatures(pr, df, kind) ==
    IF pr.feature_columns # <<>>
    THEN [cols |-> pr.feature_columns, rows |-> <<kind>>]                 \* 218-220
    ELSE [cols |-> PrepareFeatures(df).cols, rows |-> <<kind>>]

Unavailable == [top_features_of |-> 0, explanation |-> "No explanation available"]

\* lines 234-247: the explanation part of a prediction response
ExplanationFor(ex, pr, X) ==
    IF ~ex.exists THEN Unavailable
    ELSE LET e == ExplainLocal(ex, pr, X, <<0>>) IN
         IF e.raised THEN Unavailable
         ELSE [top_features_of |-> e.explanations[1].shap_of,
               explanation |-> "explained"]

Response(op, status) == [op |-> op, raised |-> status # 200, status |-> status]

\* process start (or restart): the module is imported again
ApiStartup ==
    LET r == AutoLoadLatestModel(models_dir) IN
    /\ predictor' = r.predictor
    /\ explainer' = NoExplainer
    /\ committed' = IF r.ok THEN r.predictor ELSE NewPredictor
    /\ last' = Response("startup", 200)
    /\ UNCHANGED <<models_dir, processed_data, next_id>>
    /\ UNCHANGED pureVars

\* POST /data/upload, lines 146-184
ApiUploadData ==
    \E t \in TableIds, fail \in TrainFailures \ {"tune"} :
        /\ processed_data' = t                                            \* 158
        /\ IF predictor.is_trained
           THEN /\ fail = "none"
                /\ UNCHANGED <<predictor, explainer, models_dir, committed, next_id>>
           ELSE LET p == PrepareTrainingData(predictor, Tables[t])        \* 164
                    r == Train(p.predictor, models_dir, p.X, next_id + 1, fail)
                IN  /\ next_id < MaxServiceId
                    /\ predictor' = r.predictor
                    /\ models_dir' = r.dir
                    /\ next_id' = IF r.predictor.model.id = next_id + 1
                                  THEN next_id + 1 ELSE next_id
                    /\ committed' = IF r.raised THEN committed ELSE r.predictor
                    /\ explainer' = ExplainerAfterTrain(explainer, r)
        /\ last' = Response("upload_data", 200)
        /\ UNCHANGED pureVars

\* POST /model/train, lines 114-144
ApiTrainModel ==
    \E use_hyperparameter_tuning \in BOOLEAN, fail \in TrainFailures :
        /\ fail = "tune" => use_hyperparameter_tuning
        /\ IF processed_data = 0
           THEN /\ fail = "none" /\ ~use_hyperparameter_tuning
                /\ last' = Response("train_model", 400)                   \* 118-119
                /\ UNCHANGED <<predictor, explainer, models_dir, committed, next_id>>
           ELSE LET p == PrepareTrainingData(predictor, Tables[processed_data])
                    r == Train(p.predictor, models_dir, p.X, next_id + 1, fail)
                IN  /\ next_id < MaxServiceId
                    /\ predictor' = r.predictor
                    /\ models_dir' = r.dir
                    /\ next_id' = IF r.predictor.model.id = next_id + 1
                                  THEN next_id + 1 ELSE next_id
                    /\ committed' = IF r.raised THEN committed ELSE r.predictor
                    /\ explainer' = ExplainerAfterTrain(explainer, r)
                    /\ last' = Response("train_model", IF r.raised THEN 500 ELSE 200)
        /\ UNCHANGED processed_data
        /\ UNCHANGED pureVars

\* POST /predict, lines 186-259, for the request whose record is of this kind
\* (table t gives the columns of the prepared one-row frame)
PredictSingleStep(t, kind) ==
    /\ IF ~predictor.is_trained
       THEN last' = Response("predict_single", 400)                       \* 189-190
       ELSE LET X == SingleRowFeatures(predictor, Tables[t], kind)
                r == Predict(predictor, X)
            IN  IF X.cols = <<>> \/ r.raised
                THEN last' = Response("predict_single", 500)              \* 224-232, 257
                ELSE last' =
                    [op |-> "predict_single", raised |-> FALSE, status |-> 200,
                     dropout_probability |-> r.probabilities[1],
                     risk_label |-> r.risk_labels[1],
                     scored_by |-> predictor.model.id,
                     explained |-> ExplanationFor(explainer, predictor, X)]
    /\ UNCHANGED <<predictor, explainer, models_dir, processed_data, committed, next_id>>
    /\ UNCHANGED pureVars

ApiPredictSingle == \E t \in TableIds, kind \in RowKinds : PredictSingleStep(t, kind)

\* predict_batch lines 283-297: the explanation of record i; explain_local is
\* called outside any try of its own
BatchExplanation(ex, pr, X, i) ==
    IF ~ex.exists THEN [raised |-> FALSE, explained |-> Unavailable]      \* 292-297
    ELSE LET e == ExplainLocal(ex, pr, X, <<i>>) IN
         IF e.raised THEN [raised |-> TRUE, explained |-> Unavailable]
         ELSE [raised |-> FALSE,
               explained |-> [top_features_of |-> e.explanations[1].shap_of,
                              explanation |-> "explained"]]

\* POST /predict/batch, lines 261-311, for the request whose records make
\* table t once processed
PredictBatchStep(t) ==
    /\ IF ~predictor.is_trained
       THEN last' = Response("predict_batch", 400)                        \* 264-265
       ELSE LET X == PrepareFeatures(Tables[t])                           \* 275
                r == Predict(predictor, X)                                \* 278
            IN  IF r.raised
                    \/ \E i \in 0..(Len(X.rows) - 1) :
                           BatchExplanation(explainer, predictor, X, i).raised
                THEN last' = Response("predict_batch", 500)               \* 309-311
                ELSE last' =
                    [op |-> "predict_batch", raised |-> FALSE, status |-> 200,
                     predictions |->
                        [k \in 1..Len(X.rows) |->
                            [dropout_probability |-> r.probabilities[k],
                             risk_label |-> r.risk_labels[k],
                             explained |->
                                BatchExplanation(explainer, predictor, X, k - 1).explained]]]
    /\ UNCHANGED <<predictor, explainer, models_dir, processed_data, committed, next_id>>
    /\ UNCHANGED pureVars

ApiPredictBatch == \E t \in TableIds : PredictBatchStep(t)

\* GET /explain/local/{student_index}, lines 333-356
ApiGetLocalExplanation ==
    \E student_index \in 0..1 :
        /\ IF ~predictor.is_trained \/ ~explainer.exists
           THEN last' = Response("get_local_explanation", 400)            \* 336-337
           ELSE IF processed_data = 0
           THEN last' = Response("get_local_explanation", 500)            \* 351, 354
           ELSE LET X == PrepareFeatures(Tables[processed_data])
                    e == ExplainLocal(explainer, predictor, X, <<student_index>>)
                IN  IF student_index >= Len(X.rows) \/ e.raised
                    THEN last' = Response("get_local_explanation", 500)
                    ELSE last' = [op |-> "get_local_explanation", raised |-> FALSE,
                                  status |-> 200, result |-> e]
        /\ UNCHANGED <<predictor, explainer, models_dir, processed_data, committed, next_id>>
        /\ UNCHANGED pureVars

NextApi ==
    \/ ApiStartup
    \/ ApiUploadData
    \/ ApiTrainModel
    \/ ApiPredictSingle
    \/ ApiPredictBatch
    \/ ApiGetLocalExplanation

SpecApi == Init /\ [][NextApi]_vars

(***************************************************************************)
(* The service started over a models directory that earlier processes      *)
(* filled: n calls of train, each persisting dropout_model_v<k>.joblib.    *)
(***************************************************************************)
MaxVersions == 11

\* ensembles of earlier processes
PriorId(k) == ForeignId + k

RECURSIVE PriorDir(_, _)
\* MODELS_DIR after n trainings on table t
PriorDir(n, t) ==
    IF n = 0 THEN <<>>
    ELSE LET p == PrepareTrainingData(NewPredictor, Tables[t])
         IN  Train(p.predictor, PriorDir(n - 1, t), p.X, PriorId(n), "none").dir

InitStartup ==
    /\ InitPureIdle
    /\ predictor = NewPredictor
    /\ explainer = NoExplainer
    /\ \E n \in 1..MaxVersions, t \in TableIds : models_dir = PriorDir(n, t)
    /\ processed_data = 0
    /\ last = NoCall
    /\ committed = NewPredictor
    /\ next_id = 0

NextStartup ==
    \/ ApiStartup
    \/ ApiPredictSingle
    \/ ApiPredictBatch

SpecStartup == InitStartup /\ [][NextStartup]_vars

(***************************************************************************)
(* app.py: one Streamlit session.  st.session_state holds the predictor    *)
(* (`model`), the explainer, processed_data and predictions; each button   *)
(* press or page render is one script run, one step.                       *)
(***************************************************************************)
appRest == <<ppc, synthVars, firstVars, appOthers>>

\* data_upload_page, "Process Data", lines 191-200: table t is what
\* validate_and_preprocess returned
AppProcessData ==
    \E t \in TableIds :
        /\ processed_data' = t                                            \* 199
        /\ last' = [op |-> "process_data", raised |-> FALSE]
        /\ UNCHANGED <<predictor, explainer, models_dir, committed, next_id, predictions>>
        /\ UNCHANGED appRest

\* model_training_page and train_model, lines 267-336
AppTrainModel ==
    \E fail \in TrainFailures \ {"tune"} :
        LET p == PrepareTrainingData(predictor, Tables[processed_data])  \* 319
            r == Train(p.predictor, models_dir, p.X, next_id + 1, fail)   \* 322-326
        IN  /\ processed_data # 0                                         \* 271-273
            /\ next_id < MaxServiceId
            /\ predictor' = r.predictor
            /\ models_dir' = r.dir
            /\ next_id' = IF r.predictor.model.id = next_id + 1
                          THEN next_id + 1 ELSE next_id
            /\ committed' = IF r.raised THEN committed ELSE r.predictor
            /\ explainer' = IF r.raised THEN explainer                    \* 329-330
                            ELSE InitializeExplainer(NewModelExplainer, r.predictor).explainer
            /\ last' = [op |-> "train_model", raised |-> r.raised]        \* 335-336
            /\ UNCHANGED <<processed_data, predictions>>
            /\ UNCHANGED appRest

\* what lines 428-435 store
PredictionsOf(r) ==
    [exists |-> TRUE, probabilities |-> r.probabilities, risk_labels |-> r.risk_labels]

\* lines 425-435: predict only when the session holds no predictions
DashboardPredictions(r) ==
    IF predictions.exists THEN predictions                                \* 426
    ELSE IF r.raised THEN predictions
    ELSE PredictionsOf(r)

\* dashboard_page, lines 343-506; demo is whether the demo CSV is there
AppDashboard ==
    \E demo \in BOOLEAN :
        /\ IF demo /\ (processed_data = 0 \/ ~predictor.is_trained)       \* 368
           THEN /\ last' = [op |-> "dashboard_demo", raised |-> FALSE]
                /\ UNCHANGED predictions
           ELSE IF ~predictor.is_trained \/ processed_data = 0            \* 417-423
           THEN /\ last' = [op |-> "dashboard_warning", raised |-> FALSE]
                /\ UNCHANGED predictions
           ELSE LET r == Predict(predictor, PrepareFeatures(Tables[processed_data]))
                IN  /\ predictions' = DashboardPredictions(r)
                    /\ last' = [op |-> "dashboard",
                                raised |-> ~predictions.exists /\ r.raised]
        /\ UNCHANGED <<predictor, explainer, models_dir, processed_data, committed, next_id>>
        /\ UNCHANGED appRest

\* student_details_page, lines 509-576, for the student picked
AppStudentDetails ==
    /\ predictor.is_trained /\ predictions.exists                         \* 513-515
    /\ processed_data # 0
    /\ \E student_index \in 0..(Len(Tables[processed_data].rows) - 1) :   \* 519-522
          IF student_index >= Len(predictions.probabilities)
          THEN last' = [op |-> "student_details", raised |-> TRUE]        \* 543
          ELSE last' = [op |-> "student_details", raised |-> FALSE,
                        probability |-> predictions.probabilities[student_index + 1],
                        risk_label |-> predictions.risk_labels[student_index + 1]]
    /\ UNCHANGED <<predictor, explainer, models_dir, processed_data, committed, next_id,
                   predictions>>
    /\ UNCHANGED appRest

\* export_page, lines 578-634
AppExport ==
    /\ predictions.exists                                                 \* 582-584
    /\ processed_data # 0
    /\ IF Len(predictions.probabilities) # Len(Tables[processed_data].rows)
       THEN last' = [op |-> "export", raised |-> TRUE]                    \* 588
       ELSE last' = [op |-> "export", raised |-> FALSE,
                     dropout_probability |-> predictions.probabilities,
                     risk_label |-> predictions.risk_labels]
    /\ UNCHANGED <<predictor, explainer, models_dir, processed_data, committed, next_id,
                   predictions>>
    /\ UNCHANGED appRest

NextApp ==
    \/ AppProcessData
    \/ AppTrainModel
    \/ AppDashboard
    \/ AppStudentDetails
    \/ AppExport

\* lines 67-76
SpecApp == Init /\ [][NextApp]_vars

(***************************************************************************)
(* Expected columns of the feature pipeline: config.py REQUIRED_COLUMNS    *)
(* and OPTIONAL_COLUMNS, and the columns _engineer_features derives.       *)
(***************************************************************************)
REQUIRED_COLUMNS ==
    <<"student_id", "attendance_percentage", "assignment_timeliness",
      "quiz_test_avg_pct", "fee_payment_status", "lms_login_count_monthly",
      "time_spent_online_hours_week">>

OPTIONAL_COLUMNS == <<"student_name", "age", "gender", "socioeconomic_status">>

EngineeredColumns ==
    {"engagement_score", "academic_performance", "low_attendance", "payment_issues"}

(***************************************************************************)
(* DataProcessor._map_columns, data_processor.py lines 72-93, when no      *)
(* column_mapping is given.  Column names are strings; a name is a         *)
(* substring of another as Python's `in` has it.                           *)
(***************************************************************************)
MaxColumns == 3

IsSubstring(a, b) ==
    \E i \in 1..(Len(b) - Len(a) + 1) : SubSeq(b, i, i + Len(a) - 1) = a

\* str.lower on the letters the uploaded names use
LowerChar(c) ==
    CASE c = "A" -> "a" [] c = "D" -> "d" [] c = "I" -> "i"
      [] c = "N" -> "n" [] c = "S" -> "s" [] OTHER -> c

RECURSIVE Lower(_)
Lower(name) ==
    IF name = "" THEN ""
    ELSE LowerChar(SubSeq(name, 1, 1)) \o Lower(SubSeq(name, 2, Len(name)))

RECURSIVE Strip(_)
Strip(name) ==
    IF name = "" THEN ""
    ELSE IF SubSeq(name, 1, 1) = " " THEN Strip(SubSeq(name, 2, Len(name)))
    ELSE IF SubSeq(name, Len(name), Len(name)) = " "
         THEN Strip(SubSeq(name, 1, Len(name) - 1))
    ELSE name

\* df_mapped.columns.str.lower().str.strip(), line 81
Normalised(columns) == [i \in 1..Len(columns) |-> Strip(Lower(columns[i]))]

\* the condition of line 86
ColumnMatches(expected_col, actual_col) ==
    \/ IsSubstring(Lower(expected_col), Lower(actual_col))
    \/ IsSubstring(Lower(actual_col), Lower(expected_col))

\* the inner loop, lines 85-88: the first table column the condition holds
\* for, 0 when the loop ends without a break
FirstMatch(expected_col, columns) ==
    IF \E i \in 1..Len(columns) : ColumnMatches(expected_col, columns[i])
    THEN CHOOSE i \in 1..Len(columns) :
            /\ ColumnMatches(expected_col, columns[i])
            /\ \A j \in 1..(i - 1) : ~ColumnMatches(expected_col, columns[j])
    ELSE 0

\* auto_mapping[actual_col] = expected_col, line 87
Assign(mapping, actual_col, expected_col) ==
    [c \in DOMAIN mapping \cup {actual_col} |->
        IF c = actual_col THEN expected_col ELSE mapping[c]]

RECURSIVE AutoMapping(_, _, _)
\* the outer loop, lines 84-88, over the expected columns still to try
AutoMapping(expected, columns, mapping) ==
    IF expected = <<>> THEN mapping
    ELSE LET i == FirstMatch(Head(expected), columns) IN
         AutoMapping(Tail(expected), columns,
                     IF i = 0 THEN mapping
                     ELSE Assign(mapping, columns[i], Head(expected)))

\* df_mapped.rename(columns=auto_mapping), line 91
Rename(columns, mapping) ==
    [i \in 1..Len(columns) |->
        IF columns[i] \in DOMAIN mapping THEN mapping[columns[i]] ELSE columns[i]]

MapColumns(columns) ==
    LET lowered == Normalised(columns)
        auto_mapping == AutoMapping(REQUIRED_COLUMNS \o OPTIONAL_COLUMNS, lowered, <<>>)
    IN  [column_mapping |-> auto_mapping, df_mapped |-> Rename(lowered, auto_mapping)]

\* column names of uploaded tables
UploadedNames ==
    {"Student_ID", "student", "id", "age", " attendance_percentage ", "name",
     "gender", "notes"}

DistinctSeqs(S, n) ==
    {s \in SeqsUpTo(S, n) : \A i, j \in 1..Len(s) : s[i] = s[j] => i = j}

InitMap ==
    /\ ppc = "map_input"
    /\ df_columns \in DistinctSeqs(UploadedNames, MaxColumns)
    /\ column_mapping = <<>>
    /\ df_mapped = <<>>
    /\ SynthIdle
    /\ FirstIdle
    /\ MapOthersIdle
    /\ InitSys

DoMapColumns ==
    /\ ppc = "map_input"
    /\ column_mapping' = MapColumns(df_columns).column_mapping
    /\ df_mapped' = MapColumns(df_columns).df_mapped
    /\ ppc' = "mapped"
    /\ UNCHANGED df_columns
    /\ UNCHANGED <<synthVars, firstVars, mapOthers, sysVars>>

NextMap == DoMapColumns

SpecMap == InitMap /\ [][NextMap]_vars

(***************************************************************************)
(* DataProcessor._clean_data_types, data_processor.py lines 95-113, on one *)
(* percentage column.  Cells are text as uploaded; parsed values are in    *)
(* hundredths (0.5 is 50, 80 is 8000), NaN for a cell to_numeric coerces.  *)
(***************************************************************************)
MaxCells == 3

RECURSIVE RemovePercent(_)
\* .str.replace('%', ''), line 102
RemovePercent(text) ==
    IF text = "" THEN ""
    ELSE IF SubSeq(text, 1, 1) = "%" THEN RemovePercent(SubSeq(text, 2, Len(text)))
    ELSE SubSeq(text, 1, 1) \o RemovePercent(SubSeq(text, 2, Len(text)))

\* pd.to_numeric(..., errors='coerce'), line 103
ToNumeric(text) ==
    CASE text = "0.5" -> 50
      [] text = "0.9" -> 90
      [] text = "1" -> 100
      [] text = "80" -> 8000
      [] OTHER -> NaN

ParseCell(text) == ToNumeric(Strip(RemovePercent(text)))

ParseCells(cells) == [i \in 1..Len(cells) |-> ParseCell(cells[i])]

\* df_clean[col] * 100, line 110
Times100(cells) ==
    [i \in 1..Len(cells) |-> IF cells[i] = NaN THEN NaN ELSE cells[i] * 100]

\* lines 104-112: pd.notnull(med) and med <= 1
RescaleIfFraction(cells) ==
    IF Median(cells) # NaN /\ Median(cells) <= 100 THEN Times100(cells) ELSE cells

\* the loop body of lines 100-112 for the column col
CleanPercentageColumn(col, cells) ==
    IF col = "assignment_timeliness"                                      \* 105
    THEN RescaleIfFraction(ParseCells(cells))
    ELSE ParseCells(cells)

PercentageCols == {"attendance_percentage", "assignment_timeliness", "quiz_test_avg_pct"}

RawCells == {"0.5", "0.9%", " 1 ", "80", "80%", "n/a"}

InitClean ==
    /\ ppc = "clean_input"
    /\ pct_col \in PercentageCols
    /\ raw_cells \in SeqsUpTo(RawCells, MaxCells)
    /\ df_clean = <<>>
    /\ SynthIdle
    /\ FirstIdle
    /\ CleanOthersIdle
    /\ InitSys

DoCleanDataTypes ==
    /\ ppc = "clean_input"
    /\ df_clean' = CleanPercentageColumn(pct_col, raw_cells)
    /\ ppc' = "cleaned"
    /\ UNCHANGED <<pct_col, raw_cells>>
    /\ UNCHANGED <<synthVars, firstVars, cleanOthers, sysVars>>

NextClean == DoCleanDataTypes

SpecClean == InitClean /\ [][NextClean]_vars

(***************************************************************************)
(* DataProcessor._engineer_features, data_processor.py lines 179-205: the  *)
(* engagement_score of the rows of a frame, in tenths.  A column maximum   *)
(* of 0 makes the quotient 0/0, NaN.                                       *)
(***************************************************************************)
MaxOthers == 2

RECURSIVE SeqMax(_)
\* Series.max()
SeqMax(s) ==
    IF Len(s) = 1 THEN s[1]
    ELSE LET m == SeqMax(Tail(s)) IN IF Head(s) > m THEN Head(s) ELSE m

ColumnOf(frame, c) == [i \in 1..Len(frame) |-> frame[i][c]]

\* lines 185-189 for row i of the frame
EngagementScore(frame, i) ==
    LET lms_max == SeqMax(ColumnOf(frame, "lms_login_count_monthly"))
        online_max == SeqMax(ColumnOf(frame, "time_spent_online_hours_week"))
    IN  IF lms_max = 0 \/ online_max = 0 THEN NaN
        ELSE 4 * frame[i].attendance_percentage
             + (300 * frame[i].lms_login_count_monthly) \div lms_max
             + (300 * frame[i].time_spent_online_hours_week) \div online_max

EngagementRecords ==
    [attendance_percentage : {80}, lms_login_count_monthly : {0, 10, 20},
     time_spent_online_hours_week : {0, 5, 10}]

InitEngagement ==
    /\ ppc = "engagement_input"
    /\ student_row \in EngagementRecords
    /\ other_rows \in SeqsUpTo(EngagementRecords, MaxOthers)
    /\ alone_score = 0
    /\ batch_score = 0
    /\ SynthIdle
    /\ FirstIdle
    /\ EngOthersIdle
    /\ InitSys

\* api.py predict_single, lines 205-208: the frame holds the one record
PreprocessAlone ==
    /\ ppc = "engagement_input"
    /\ alone_score' = EngagementScore(<<student_row>>, 1)
    /\ ppc' = "engagement_alone"
    /\ UNCHANGED <<student_row, other_rows, batch_score>>
    /\ UNCHANGED <<synthVars, firstVars, engOthers, sysVars>>

\* upload and predict_batch: the frame holds the record and the others
PreprocessInBatch ==
    /\ ppc = "engagement_alone"
    /\ batch_score' = EngagementScore(<<student_row>> \o other_rows, 1)
    /\ ppc' = "engagement_both"
    /\ UNCHANGED <<student_row, other_rows, alone_score>>
    /\ UNCHANGED <<synthVars, firstVars, engOthers, sysVars>>

NextEngagement == PreprocessAlone \/ PreprocessInBatch

SpecEngagement == InitEngagement /\ [][NextEngagement]_vars

(***************************************************************************)
(*                               PROPERTIES                                *)
(***************************************************************************)

\* C1: for every probability the tier loop of predict assigns exactly one
\* tier: High iff p >= 0.65, Medium iff 0.35 <= p < 0.65, Low iff p < 0.35;
\* 0.70 -> High, 0.50 -> Medium, 0.10 -> Low.
TiersPartitionProbability ==
    ppc = "done" =>
        /\ risk_label \in {"High", "Medium", "Low"}
        /\ (risk_label = "High") <=> (prob >= 65)
        /\ (risk_label = "Medium") <=> (35 <= prob /\ prob < 65)
        /\ (risk_label = "Low") <=> (prob < 35)
        /\ (prob = 70 => risk_label = "High")
        /\ (prob = 50 => risk_label = "Medium")
        /\ (prob = 10 => risk_label = "Low")

\* C1 witness: the boundary probability 0.65 went through the loop and is High
TierBoundaryScored == ppc = "done" /\ prob = 65 /\ risk_label = "High"

\* The weight the label synthesizer is specified to give the cleaned record:
\* +2 attendance < 60, +2 timeliness < 50, +2 quiz < 50, +1 payment < 0.5,
\* +1 logins < 5, an absent or null field adding nothing.
SpecifiedTerm(c, t, w) == IF c \in DOMAIN record /\ record[c] < t THEN w ELSE 0

SpecifiedOtherTerms ==
      SpecifiedTerm("attendance_percentage", 60, 2)
    + SpecifiedTerm("assignment_timeliness", 50, 2)
    + SpecifiedTerm("quiz_test_avg_pct", 50, 2)
    + SpecifiedTerm("lms_login_count_monthly", 5, 1)

SpecifiedWeight == SpecifiedOtherTerms + SpecifiedTerm("fee_payment_status", 5, 1)

ScenarioRecord ==
    /\ DOMAIN record = {"attendance_percentage", "quiz_test_avg_pct",
                        "fee_payment_status", "lms_login_count_monthly"}
    /\ record["attendance_percentage"] = 40
    /\ record["quiz_test_avg_pct"] = 45
    /\ record["fee_payment_status"] = 0
    /\ record["lms_login_count_monthly"] = 2

\* C2: the synthetic target is a function of the record alone: its weight is
\* the specified sum and the label is 1 iff the weight is at least 3; the
\* record attendance=40, quiz=45, payment=0, logins=2 gets weight 6, label 1.
SyntheticTargetIsSpecifiedWeight ==
    ppc \in {"labelled", "done"} =>
        /\ synth_weight = SpecifiedWeight
        /\ synth_label = (IF SpecifiedWeight >= 3 THEN 1 ELSE 0)
        /\ (ScenarioRecord => synth_weight = 6 /\ synth_label = 1)

\* C2 witness: the scenario record was labelled, with weight 6 and label 1
ScenarioRecordLabelled ==
    ppc = "labelled" /\ ScenarioRecord /\ synth_weight = 6 /\ synth_label = 1

\* the part of the weight that the payment factor contributed
PaymentWeight == synth_weight - SpecifiedOtherTerms

\* C3 as stated: 'partial' and 'unpaid' both receive the +1 payment weight,
\* 'paid' receives 0.
PartialAndUnpaidWeighted ==
    ppc \in {"labelled", "done"} =>
        /\ (raw_fee \in {"partial", "unpaid"} => PaymentWeight = 1)
        /\ (raw_fee = "paid" => PaymentWeight = 0)

\* C3 amended: only 'unpaid' (lexicon value 0) receives the +1 payment
\* weight; 'partial' (0.5, not below the 0.5 threshold) and 'paid' (1)
\* receive 0.
OnlyUnpaidWeighted ==
    ppc \in {"labelled", "done"} =>
        /\ (raw_fee = "unpaid" => PaymentWeight = 1)
        /\ (raw_fee \in {"partial", "paid"} => PaymentWeight = 0)

\* C3 witness: a record with status 'partial' was labelled and got no
\* payment weight
PartialLabelledUnweighted ==
    ppc = "labelled" /\ raw_fee = "partial" /\ PaymentWeight = 0
        /\ record["fee_payment_status"] = 5

\* C4: while no train() or load_model() has succeeded on the predictor,
\* predict raises and returns no labels, probabilities or tiers.
PredictBeforeSuccessRaises ==
    (last.op = "predict" /\ ~committed.is_trained) => last.raised

\* C5: explain_local, explain_global and get_summary_plot_data raise while
\* the explainer is uninitialized; initialize_explainer on an untrained
\* predictor raises and leaves the explainer uninitialized; so whatever
\* explanation is returned comes from an initialized explainer on a
\* predictor that train or load marked trained.
ExplainOps == {"explain_local", "explain_global", "get_summary_plot_data"}

ExplainNeedsInitialize ==
    /\ (last.op \in ExplainOps /\ explainer.explainer.id = 0) => last.raised
    /\ (last.op = "initialize_explainer" /\ ~predictor.is_trained) =>
            (last.raised /\ explainer.explainer.id = 0)
    /\ (last.op \in ExplainOps /\ ~last.raised) =>
            (explainer.explainer.id # 0 /\ predictor.is_trained)
    /\ explainer.explainer.id # 0 => predictor.is_trained

\* C5 witness: initialize_explainer was refused on a predictor that holds a
\* fitted ensemble but was never marked trained
InitializeRefusedUntrained ==
    /\ last.op = "initialize_explainer" /\ last.raised
    /\ ~predictor.is_trained /\ predictor.model.fitted
    /\ explainer.exists /\ explainer.explainer.id = 0

\* C6: a load_model call that fails leaves ensemble, feature_columns,
\* model_version, training_metrics and is_trained as they were.
FailedLoadLeavesPredictor ==
    [][(DoLoadModel /\ ~last'.ok) => predictor' = predictor]_vars

\* feature_columns that the expected feature schema can supply
Reconcilable(art) ==
    Range(art.feature_columns) \subseteq
        (Range(REQUIRED_COLUMNS) \cup Range(OPTIONAL_COLUMNS) \cup EngineeredColumns)

\* C7: load_model reports failure for, and does not install, an artifact
\* whose feature_columns cannot be reconciled with the expected schema.
IrreconcilableLoadRejected ==
    [][\A art \in ForeignArtifacts :
        (LoadStep(art) /\ ~art.corrupt /\ ArtifactKeys \subseteq art.keys
            /\ ~Reconcilable(art))
        => (~last'.ok /\ predictor' = predictor)]_vars

\* C8: an initialized explainer was built from the predictor's current
\* ensemble, in every state the service can reach.
ExplainerBuiltFromCurrentEnsemble ==
    explainer.explainer.id # 0 => explainer.explainer = predictor.model

\* C9: ensemble, feature_columns, model_version and training_metrics are
\* those of one successful train or load: whatever fails, the predictor
\* holds what the last successful train/load installed (or what the
\* constructor set, before the first).
PredictorHoldsOneGeneration ==
    /\ predictor.model = committed.model
    /\ predictor.feature_columns = committed.feature_columns
    /\ predictor.model_version = committed.model_version
    /\ predictor.training_metrics = committed.training_metrics

\* C10: while is_trained holds, feature_columns is, name for name and in
\* order, the column list of the matrix the current ensemble was fitted on
\* (an ensemble that fit never completed on has no such matrix and is left
\* out here).
FeatureColumnsAreFittedColumns ==
    (predictor.is_trained /\ predictor.model.fitted) =>
        predictor.feature_columns = predictor.model.cols

\* C11: on a trained predictor with non-empty feature_columns (one that the
\* last successful train/load left as it is), predict on a table lacking a
\* trained feature column does not raise and returns one label, probability
\* and tier per input row.
MissingColumnPredictReturns ==
    [][\A X \in PredictInputs :
        (/\ last'.op = "predict"
         /\ PredictStep(X)
         /\ predictor.is_trained /\ predictor = committed
         /\ predictor.feature_columns # <<>>
         /\ ~(Range(predictor.feature_columns) \subseteq Range(X.cols)))
        => (/\ ~last'.raised
            /\ Len(last'.result.predictions) = Len(X.rows)
            /\ Len(last'.result.probabilities) = Len(X.rows)
            /\ Len(last'.result.risk_labels) = Len(X.rows))]_vars

TrainingMedian == Median(train_column)

\* C12: a null cell of a trained feature column is scored as the column's
\* training-time median, whatever the other rows of the batch hold, and no
\* row is dropped.
MissingFilledWithTrainingMedian ==
    ppc \in {"filled", "filled_single"} =>
        /\ Len(X_processed) = Len(batch)
        /\ \A i \in 1..Len(batch) :
                batch[i] = NaN => X_processed[i] = TrainingMedian

\* the predictor that save_model wrote the bundle from (save_model requires
\* is_trained), and what its predict returned in the saving process
Saver(art) ==
    [model |-> art.model, feature_columns |-> art.feature_columns,
     model_version |-> art.model_version, training_metrics |-> art.training_metrics,
     is_trained |-> TRUE]

OutputBeforeSave(art, X) ==
    LET r == Predict(Saver(art), X) IN
    IF r.raised THEN r
    ELSE [r EXCEPT !.risk_labels =
            [i \in 1..Len(r.probabilities) |->
                RiskLabelUnder(art.risk_thresholds, r.probabilities[i])]]

\* C13: loading a bundle that save_model wrote succeeds on any predictor,
\* restores ensemble, feature_columns, model_version and training_metrics,
\* and predict then returns, for every batch, the labels, probabilities and
\* tiers it returned before the save, the tiers being those of the
\* thresholds persisted in the bundle.
SaveLoadRoundTrip ==
    [][\A art \in PersistedArtifacts \cup ForeignArtifacts :
        (LoadStep(art) /\ ~art.corrupt /\ art.keys = ArtifactKeys)
        => (/\ last'.ok
            /\ predictor' = Saver(art)
            /\ \A X \in PredictInputs :
                    Predict(predictor', X) = OutputBeforeSave(art, X))]_vars

\* the triggered recommendations the call left out
Omitted == {r \in Range(recommendations) : r \notin Range(returned)}

KeyGreater(a, b) == KeyLess(b, a)

\* C15: analyze_student_risk_factors returns at most 5 recommendations, all
\* of them triggered ones, in non-increasing (priority_score, impact_score)
\* order, as many as were triggered up to 5, and no triggered recommendation
\* left out has a strictly greater pair than a returned one.
TopFiveByPriorityAndImpact ==
    ppc = "recommended" =>
        /\ Len(returned) <= 5
        /\ Len(returned) = (IF Len(recommendations) < 5 THEN Len(recommendations) ELSE 5)
        /\ Range(returned) \subseteq Range(recommendations)
        /\ Cardinality(Range(returned)) = Len(returned)
        /\ \A i \in 1..Len(returned), j \in 1..Len(returned) :
                i < j => ~KeyLess(returned[i], returned[j])
        /\ \A o \in Omitted, r \in Range(returned) : ~KeyGreater(o, r)

\* C15 witness: all seven recommendations were triggered, five returned, the
\* two priority-9 ones first with the larger impact in front
SevenTriggeredFiveReturned ==
    /\ ppc = "recommended"
    /\ Len(recommendations) = 7 /\ Len(returned) = 5
    /\ returned[1].factor = "Financial Issues" /\ returned[1].impact_score = 20
    /\ returned[2].factor = "Low Attendance" /\ returned[2].impact_score = 7
    /\ Cardinality(Omitted) = 2

Scenario100Rows10Positives == y_counts = Counts(90, 10) /\ use_smote

\* C16: train splits 70/15/15 and oversamples the training split only.  The
\* three splits partition the rows with their labels; validation and test
\* are what the split made them; with resampling on and both classes in
\* the training split its classes end level, otherwise it is unchanged;
\* for 100 rows with 10 positives validation and test hold 15 rows each.
SplitThenOversampleTrainOnly ==
    ppc = "resampled" =>
        /\ split.train.neg + split.val.neg + split.test.neg = y_counts.neg
        /\ split.train.pos + split.val.pos + split.test.pos = y_counts.pos
        /\ Total(split.val) + Total(split.test) = CeilFraction(Total(y_counts), 3, 10)
        /\ Total(split.test) = CeilFraction(Total(split.val) + Total(split.test), 1, 2)
        /\ resampled.val = split.val /\ resampled.test = split.test
        /\ (use_smote /\ split.train.neg > 0 /\ split.train.pos > 0)
                => (/\ resampled.train.neg = resampled.train.pos
                    /\ resampled.train.neg >= split.train.neg
                    /\ resampled.train.pos >= split.train.pos)
        /\ (~use_smote \/ split.train.neg = 0 \/ split.train.pos = 0)
                => resampled.train = split.train
        /\ Scenario100Rows10Positives
                => (/\ Total(split.train) = 70
                    /\ Total(resampled.val) = 15 /\ Total(resampled.test) = 15
                    /\ resampled.train.neg = resampled.train.pos)

\* C16 witness: 100 rows with 10 positives went through both steps: 63 + 7
\* rows became 63 + 63, validation and test kept 15 rows each
ScenarioResampled ==
    /\ ppc = "resampled" /\ Scenario100Rows10Positives
    /\ split.train = Counts(63, 7) /\ resampled.train = Counts(63, 63)
    /\ Total(resampled.val) = 15 /\ Total(resampled.test) = 15

\* C17: for every record explain_local explains, expected_value plus the
\* sum of the record's shap_values equals the model's scored output for the
\* record -- read here as either the probability the explanation reports or
\* the raw output (margin) behind that probability.
AttributionSumLaw ==
    (last.op = "explain_local" /\ ~last.raised) =>
        \A k \in 1..Len(last.result.explanations) :
            LET e == last.result.explanations[k] IN
            last.result.expected_value + e.shap_sum
                \in {e.probability, Margin(e.probability)}

\* C18: whatever thresholds RISK_THRESHOLDS is configured with, the
\* risk_level explain_local reports for a record is the risk label predict
\* assigns to the same probability.
ExplainTierIsPredictTier ==
    ppc = "tier_explained" => explain_tier = predict_tier

\* a step in which a train() call returned: a new ensemble was constructed
\* and became the committed one
TrainSucceeded == next_id' = next_id + 1 /\ committed'.model.id = next_id'

\* C19: each successful train() sets model_version to N + 1, N being the
\* number of artifacts in the models directory at that moment, and persists
\* the new bundle under that version; the version is above every version
\* persisted so far and every existing artifact is left as it was.
TrainVersionsCountUp ==
    [][TrainSucceeded =>
        LET N == Cardinality(DOMAIN models_dir) IN
        /\ predictor'.model_version = N + 1
        /\ DOMAIN models_dir' = DOMAIN models_dir \cup {N + 1}
        /\ (N + 1) \notin DOMAIN models_dir
        /\ models_dir'[N + 1] = ModelData(predictor')
        /\ \A v \in DOMAIN models_dir : v < N + 1 /\ models_dir'[v] = models_dir[v]]_vars

\* C19 witness: two trainings succeeded one after the other; the artifacts
\* v1 and v2 hold the two ensembles and the predictor is at v2
TwoVersionsPersisted ==
    /\ DOMAIN models_dir = {1, 2}
    /\ models_dir[1].model.id = 1 /\ models_dir[1].model_version = 1
    /\ models_dir[2].model.id = 2 /\ models_dir[2].model_version = 2
    /\ predictor.model_version = 2 /\ committed = predictor

\* C20: validate_and_preprocess keeps a column whatever it misses (a
\* numeric column stays, an object column keeps an indicator for each of
\* its categories); a column missing more than 30% has an entry in the
\* report's warnings; a column missing up to 30% has no null left.
MissingValuePolicy ==
    ppc = "preprocessed" =>
        /\ Len(df_processed.cells) = Len(column)
        /\ col_numeric => df_processed.kept
        /\ ~col_numeric =>
                ({column[i] : i \in 1..Len(column)} \ {NaN}) \subseteq df_processed.indicators
        /\ Over30Percent(column) => processing_info.warnings # <<>>
        /\ (MissingCount(column) > 0 /\ ~Over30Percent(column)) =>
                \A i \in 1..Len(column) : df_processed.cells[i] # NaN

(***************************************************************************)
(* C21.  A failure while computing an explanation never fails the          *)
(* prediction request: whenever predict itself returns for the request's   *)
(* frame, POST /predict and POST /predict/batch both answer 200 with each  *)
(* record's probability and risk label, and a record whose explanation     *)
(* raised carries the unavailable result.                                  *)
(***************************************************************************)
ExplainerRaisesFor(X, i) ==
    explainer.exists /\ ExplainLocal(explainer, predictor, X, <<i>>).raised

SingleAnswersDespiteExplainer(t, kind) ==
    LET X == SingleRowFeatures(predictor, Tables[t], kind)
        r == Predict(predictor, X)
    IN  (predictor.is_trained /\ X.cols # <<>> /\ ~r.raised) =>
            /\ last'.status = 200
            /\ last'.dropout_probability = r.probabilities[1]
            /\ last'.risk_label = r.risk_labels[1]
            /\ ExplainerRaisesFor(X, 0) => last'.explained = Unavailable

BatchAnswersDespiteExplainer(t) ==
    LET X == PrepareFeatures(Tables[t])
        r == Predict(predictor, X)
    IN  (predictor.is_trained /\ ~r.raised) =>
            /\ last'.status = 200
            /\ \A k \in 1..Len(X.rows) :
                  /\ last'.predictions[k].dropout_probability = r.probabilities[k]
                  /\ last'.predictions[k].risk_label = r.risk_labels[k]
                  /\ ExplainerRaisesFor(X, k - 1) =>
                        last'.predictions[k].explained = Unavailable

ExplainerFailureNeverFailsPrediction ==
    [][/\ \A t \in TableIds, kind \in RowKinds :
            (last'.op = "predict_single" /\ PredictSingleStep(t, kind))
                => SingleAnswersDespiteExplainer(t, kind)
       /\ \A t \in TableIds :
            (last'.op = "predict_batch" /\ PredictBatchStep(t))
                => BatchAnswersDespiteExplainer(t)]_vars

\* the single-record path alone: it degrades to the unavailable result
SingleDegradesToUnavailable ==
    [][\A t \in TableIds, kind \in RowKinds :
            (last'.op = "predict_single" /\ PredictSingleStep(t, kind))
                => SingleAnswersDespiteExplainer(t, kind)]_vars

\* a single-record response that carries a prediction and the unavailable
\* result although an explainer exists
SingleAnsweredUnavailable ==
    /\ last.op = "predict_single" /\ last.status = 200
    /\ explainer.exists /\ last.explained = Unavailable

(***************************************************************************)
(* C22.  The intervention logs are append-only: at every call each         *)
(* student's custom-intervention list and the outcome history only grow,   *)
(* the entries they held keep their position and their content, and a      *)
(* report's success_rate is the student's successful outcomes over the     *)
(* student's outcomes, 0.0 when there are none.                            *)
(***************************************************************************)
\* the contents of a student's list, entry by entry
Contents(ci, d, s) == [i \in 1..Len(ci[s]) |-> d[ci[s][i]]]

IsPrefix(a, b) == Len(a) <= Len(b) /\ \A i \in 1..Len(a) : a[i] = b[i]

SuccessRateOf(h, s) ==
    LET mine == {i \in 1..Len(h) : h[i].student_id = s}
        won == {i \in mine : "success" \in DOMAIN h[i].outcome /\ h[i].outcome.success}
    IN  IF mine = {} THEN <<0, 1>> ELSE <<Cardinality(won), Cardinality(mine)>>

ReportedRateIsRatio ==
    \A s \in Students :
        ReportStep(s) => report'.success_rate = SuccessRateOf(intervention_history, s)

LogsAppendOnly ==
    [][/\ \A s \in DOMAIN custom_interventions :
            /\ s \in DOMAIN custom_interventions'
            /\ IsPrefix(Contents(custom_interventions, dicts, s),
                        Contents(custom_interventions', dicts', s))
       /\ IsPrefix(intervention_history, intervention_history')
       /\ ReportedRateIsRatio]_vars

\* the same with entries compared by position only (which dict object each
\* entry is), not by what the dict holds
LogsKeepPositions ==
    [][/\ \A s \in DOMAIN custom_interventions :
            /\ s \in DOMAIN custom_interventions'
            /\ IsPrefix(custom_interventions[s], custom_interventions'[s])
       /\ IsPrefix(intervention_history, intervention_history')
       /\ ReportedRateIsRatio]_vars

\* a report over two tracked outcomes of which one succeeded
ReportedHalfSuccess ==
    /\ report # <<>>
    /\ report.total_outcomes = 2
    /\ report.success_rate = <<1, 2>>

(***************************************************************************)
(* C23.  Each analyzer emits its recommendation iff the raw value is below *)
(* its limit or the feature's attribution is below its negative limit,     *)
(* either alone being enough (attendance <70 or < -0.1; quiz average <60   *)
(* or < -0.1; assignment timeliness <50 or < -0.1; payment status <1 or    *)
(* < -0.1; LMS logins <5 or < -0.05; online hours <3 or < -0.05;           *)
(* socioeconomic status <2 or < -0.05), and every emitted recommendation   *)
(* has impact_score = |attribution| >= 0.  Stated for the fields the       *)
(* record holds.                                                           *)
(***************************************************************************)
StatedRules ==
    {[field |-> "attendance_percentage", limit |-> 70, impact_limit |-> -10,
      factor |-> "Low Attendance"],
     [field |-> "quiz_test_avg_pct", limit |-> 60, impact_limit |-> -10,
      factor |-> "Poor Academic Performance"],
     [field |-> "assignment_timeliness", limit |-> 50, impact_limit |-> -10,
      factor |-> "Assignment Delays"],
     [field |-> "fee_payment_status", limit |-> 10, impact_limit |-> -10,
      factor |-> "Financial Issues"],
     [field |-> "lms_login_count_monthly", limit |-> 5, impact_limit |-> -5,
      factor |-> "Low Online Engagement"],
     [field |-> "time_spent_online_hours_week", limit |-> 3, impact_limit |-> -5,
      factor |-> "Low Online Activity"],
     [field |-> "socioeconomic_status", limit |-> 2, impact_limit |-> -5,
      factor |-> "Socioeconomic Challenges"]}

\* the attribution of a feature, zero for a feature that was not explained
Attribution(k) == IF k \in DOMAIN feature_impacts THEN feature_impacts[k] ELSE 0

Emitted(factor) ==
    \E i \in 1..Len(recommendations) : recommendations[i].factor = factor

EitherConditionTriggers ==
    ppc = "recommended" =>
        \A r \in StatedRules :
            /\ r.field \in DOMAIN student_data =>
                (Emitted(r.factor) <=>
                    \/ student_data[r.field] < r.limit
                    \/ Attribution(r.field) < r.impact_limit)
            /\ \A i \in 1..Len(recommendations) :
                    recommendations[i].factor = r.factor =>
                        /\ recommendations[i].impact_score = Abs(Attribution(r.field))
                        /\ recommendations[i].impact_score >= 0

\* attendance at its limit, not below it, and an attribution below -0.1:
\* the attribution alone triggered the recommendation
AttributionAloneTriggered ==
    /\ ppc = "recommended"
    /\ "attendance_percentage" \in DOMAIN student_data
    /\ student_data["attendance_percentage"] = 70
    /\ Attribution("attendance_percentage") = -11
    /\ Emitted("Low Attendance")

(***************************************************************************)
(* C30.  Absent data never triggers a recommendation: an analyzer whose    *)
(* field the record lacks, and whose attribution is zero or absent, emits  *)
(* nothing; an empty record with all-zero attributions gets an empty list. *)
(***************************************************************************)
SilentWhenAbsent(r) ==
    (r.field \notin DOMAIN student_data /\ Attribution(r.field) = 0)
        => ~Emitted(r.factor)

AbsentDataNeverTriggers ==
    ppc = "recommended" =>
        /\ \A r \in StatedRules : SilentWhenAbsent(r)
        /\ (student_data = <<>> /\ \A k \in DOMAIN feature_impacts : feature_impacts[k] = 0)
                => returned = <<>>

\* the analyzers whose default is on the safe side of their limit
EngagementFields == {"lms_login_count_monthly", "time_spent_online_hours_week"}

AbsentNonEngagementNeverTriggers ==
    ppc = "recommended" =>
        \A r \in StatedRules : r.field \notin EngagementFields => SilentWhenAbsent(r)

\* an empty record, all attributions zero, and recommendations returned
EmptyRecordGotRecommendations ==
    /\ ppc = "recommended"
    /\ student_data = <<>>
    /\ \A k \in DOMAIN feature_impacts : feature_impacts[k] = 0
    /\ Len(returned) = 2

(***************************************************************************)
(* C24.  top_features of an explained record holds min(3, number of        *)
(* features) entries, they are the features with the largest absolute      *)
(* attribution (no omitted feature has a strictly larger one than an       *)
(* included feature), listed in non-increasing order of it.                *)
(***************************************************************************)
Min(a, b) == IF a < b THEN a ELSE b

Included == {top_features[i].feature : i \in 1..Len(top_features)}

TopThreeByAbsoluteAttribution ==
    ppc = "top_done" =>
        /\ Len(top_features) = Min(3, Len(student_shap))
        /\ Cardinality(Included) = Len(top_features)
        /\ \A i \in 1..Len(top_features) :
              /\ top_features[i].feature \in 1..Len(student_shap)
              /\ top_features[i].shap_value = student_shap[top_features[i].feature]
              /\ top_features[i].abs_shap_value = Abs(top_features[i].shap_value)
        /\ \A f \in (1..Len(student_shap)) \ Included :
              \A i \in 1..Len(top_features) :
                    Abs(student_shap[f]) <= top_features[i].abs_shap_value
        /\ \A i, j \in 1..Len(top_features) :
              i < j => top_features[i].abs_shap_value >= top_features[j].abs_shap_value

\* four features, the largest attribution last in feature_columns: it is
\* listed first and the smallest is left out
LargestOfFourListedFirst ==
    /\ ppc = "top_done"
    /\ student_shap = <<0, 7, -7, -20>>
    /\ Len(top_features) = 3
    /\ top_features[1].feature = 4
    /\ 1 \notin Included

(***************************************************************************)
(* C25.  Auto-detection, first match wins: the expected columns are tried  *)
(* in the order REQUIRED_COLUMNS then OPTIONAL_COLUMNS, each takes the     *)
(* first table column (in table order) that matches it case-insensitively  *)
(* by substring, and a table column taken by several expected columns is   *)
(* renamed to the earliest of them; a column none takes keeps its name.    *)
(***************************************************************************)
ExpectedColumns == REQUIRED_COLUMNS \o OPTIONAL_COLUMNS

\* the places in ExpectedColumns of the expected columns that take column i
Takers(i) ==
    {k \in 1..Len(ExpectedColumns) :
        FirstMatch(ExpectedColumns[k], Normalised(df_columns)) = i}

Earliest(S) == CHOOSE k \in S : \A m \in S : k <= m

Latest(S) == CHOOSE k \in S : \A m \in S : k >= m

FirstMatchWins ==
    ppc = "mapped" =>
        /\ Len(df_mapped) = Len(df_columns)
        /\ \A i \in 1..Len(df_columns) :
              IF Takers(i) = {}
              THEN df_mapped[i] = Normalised(df_columns)[i]
              ELSE df_mapped[i] = ExpectedColumns[Earliest(Takers(i))]

\* what the loop does instead: the last expected column that took it
LastTakerWins ==
    ppc = "mapped" =>
        /\ Len(df_mapped) = Len(df_columns)
        /\ \A i \in 1..Len(df_columns) :
              IF Takers(i) = {}
              THEN df_mapped[i] = Normalised(df_columns)[i]
              ELSE df_mapped[i] = ExpectedColumns[Latest(Takers(i))]

\* a table with the columns student and id: no column becomes student_id
StudentIdLost ==
    /\ ppc = "mapped"
    /\ df_columns = <<"student", "id">>
    /\ df_mapped = <<"student_name", "id">>

(***************************************************************************)
(* C26.  For each percentage-like field (attendance_percentage,            *)
(* assignment_timeliness, quiz_test_avg_pct): if the field's median after  *)
(* parsing is <= 1, every value of the field is multiplied by 100 during   *)
(* type cleaning; otherwise the values are left as parsed.                 *)
(***************************************************************************)
MedianAtMostOne(cells) == Median(cells) # NaN /\ Median(cells) <= 100

RescaledAsStated(col) ==
    (ppc = "cleaned" /\ pct_col = col) =>
        /\ Len(df_clean) = Len(raw_cells)
        /\ \A i \in 1..Len(raw_cells) :
              df_clean[i] =
                IF ParseCell(raw_cells[i]) = NaN THEN NaN
                ELSE IF MedianAtMostOne(ParseCells(raw_cells))
                     THEN ParseCell(raw_cells[i]) * 100
                     ELSE ParseCell(raw_cells[i])

FractionFieldsRescaled == \A col \in PercentageCols : RescaledAsStated(col)

\* the one field the rescaling is written for
AssignmentTimelinessRescaled == RescaledAsStated("assignment_timeliness")

\* attendance uploaded as fractions and returned as fractions
AttendanceFractionKept ==
    /\ ppc = "cleaned"
    /\ pct_col = "attendance_percentage"
    /\ raw_cells = <<"0.5", "0.9%">>
    /\ df_clean = <<50, 90>>

(***************************************************************************)
(* C29.  The engagement_score of a record is determined by the record's    *)
(* own fields: preprocessed alone (the single-record predict path) or      *)
(* inside any batch (training, batch predict), it gets the same score.     *)
(***************************************************************************)
EngagementScoreIsOwn ==
    ppc = "engagement_both" => alone_score = batch_score

\* the record holds the largest value of both columns of the batch
HoldsBatchMaxima ==
    \A i \in 1..Len(other_rows) :
        /\ other_rows[i].lms_login_count_monthly <= student_row.lms_login_count_monthly
        /\ other_rows[i].time_spent_online_hours_week
                <= student_row.time_spent_online_hours_week

EngagementScoreSameAtMaxima ==
    (ppc = "engagement_both" /\ HoldsBatchMaxima) => alone_score = batch_score

\* ten logins and five hours: 92.0 alone, 62.0 next to a record with twenty
\* logins and ten hours
ScoreLoweredByBatch ==
    /\ ppc = "engagement_both"
    /\ alone_score = 920
    /\ batch_score = 620

(***************************************************************************)
(* C27.  At process start, when the artifacts dropout_model_v1 ..          *)
(* dropout_model_vN exist (any N >= 1, N >= 10 included), the artifact     *)
(* auto-loaded is the one with the highest version number N.               *)
(***************************************************************************)
HighestVersion(dir) == CHOOSE v \in DOMAIN dir : \A w \in DOMAIN dir : w <= v

HoldsV1ToVN(dir) == DOMAIN dir # {} /\ DOMAIN dir = 1..Cardinality(DOMAIN dir)

StartupLoadsHighestVersion ==
    [][(last'.op = "startup" /\ ApiStartup /\ HoldsV1ToVN(models_dir)) =>
            /\ predictor'.is_trained
            /\ predictor'.model_version = HighestVersion(models_dir)
            /\ predictor'.model = models_dir[HighestVersion(models_dir)].model]_vars

\* the same for directories of fewer than ten artifacts
StartupLoadsHighestBelowTen ==
    [][(last'.op = "startup" /\ ApiStartup /\ HoldsV1ToVN(models_dir)
            /\ Cardinality(DOMAIN models_dir) < 10) =>
            /\ predictor'.is_trained
            /\ predictor'.model_version = HighestVersion(models_dir)
            /\ predictor'.model = models_dir[HighestVersion(models_dir)].model]_vars

\* ten artifacts on disk and version 9 serving
TenOnDiskNineLoaded ==
    /\ last.op = "startup"
    /\ Cardinality(DOMAIN models_dir) = 10
    /\ predictor.model_version = 9

(***************************************************************************)
(* C28.  In the Streamlit app, after any sequence of process-data,         *)
(* train/retrain, dashboard, student-details and export steps, the cached  *)
(* predictions used for display and export were computed by the current    *)
(* model on the current processed data, one prediction per row of it.      *)
(***************************************************************************)
CacheIsCurrent ==
    /\ processed_data # 0
    /\ LET r == Predict(predictor, PrepareFeatures(Tables[processed_data])) IN
          /\ ~r.raised
          /\ predictions.probabilities = r.probabilities
          /\ predictions.risk_labels = r.risk_labels
    /\ Len(predictions.probabilities) = Len(Tables[processed_data].rows)

DisplayOps == {"dashboard", "student_details", "export"}

DisplayedPredictionsAreCurrent ==
    (last.op \in DisplayOps /\ predictions.exists) => CacheIsCurrent

\* the dashboard render that fills the cache
FreshCacheIsCurrent ==
    [][(last'.op = "dashboard" /\ ~predictions.exists /\ predictions'.exists)
            => CacheIsCurrent']_vars

\* an export that went through with predictions of another model or table
StalePredictionsExported ==
    /\ last.op = "export"
    /\ ~last.raised
    /\ ~CacheIsCurrent

====
